---------------------------- MODULE Spec2Model ----------------------------
(***************************************************************************)
(* Model of the v2 terminal supervisor (stdout.write hook, resize          *)
(* debouncer) and of the glitch detector it drives.                        *)
(*                                                                         *)
(* Strings are sequences of character codes, so that length, charCodeAt,   *)
(* includes and startsWith are computed as the JavaScript computes them.   *)
(* Time is Date.now() counted in model ticks: the source's millisecond     *)
(* durations are scaled down to a few ticks each and its thresholds to 2;  *)
(* they are independent settings and their mutual order is not kept.       *)
(* Timers fire at their due tick (the clock does not pass a due timer).    *)
(* The initial state is the state right after install() returned.          *)
(***************************************************************************)
EXTENDS Integers, Sequences, FiniteSets

----------------------------------------------------------------------------
(* Escape directives and markers                                           *)

CLEAR_SCROLLBACK == <<27, 91, 51, 74>>
CURSOR_SAVE == <<27, 91, 115>>
CURSOR_RESTORE == <<27, 91, 117>>
CLEAR_SCREEN == <<27, 91, 50, 74>>
HOME_CURSOR == <<27, 91, 72>>

\* 'Conversation cleared'
MARK_CONVERSATION == <<67, 111, 110, 118, 101, 114, 115, 97, 116, 105, 111, 110,
                       32, 99, 108, 101, 97, 114, 101, 100>>
\* 'Chat cleared'
MARK_CHAT == <<67, 104, 97, 116, 32, 99, 108, 101, 97, 114, 101, 100>>

\* CURSOR_SAVE + CLEAR_SCROLLBACK + CURSOR_RESTORE
FORCED_TRIM == CURSOR_SAVE \o CLEAR_SCROLLBACK \o CURSOR_RESTORE

----------------------------------------------------------------------------
(* String primitives                                                       *)

\* String.prototype.includes
Includes(s, sub) ==
  \E i \in 1..(Len(s) - Len(sub) + 1) : SubSeq(s, i, i + Len(sub) - 1) = sub

\* String.prototype.startsWith
StartsWith(s, pre) ==
  Len(s) >= Len(pre) /\ SubSeq(s, 1, Len(pre)) = pre

\* (chunk.match(/\n/g) || []).length
NewlineCount(s) == Cardinality({i \in 1..Len(s) : s[i] = 10})

\* s ends with t
EndsWith(s, t) ==
  Len(s) >= Len(t) /\ SubSeq(s, Len(s) - Len(t) + 1, Len(s)) = t

----------------------------------------------------------------------------
(* Chunk classification                                                    *)

\* an echo test without the backspace/delete rule
isStdinEcho_NoDelete(chunk) ==
  \/ Len(chunk) = 1 /\ chunk[1] >= 32 /\ chunk[1] <= 126
  \/ /\ Len(chunk) <= 6
     /\ StartsWith(chunk, <<27, 91>>)
     /\ ~Includes(chunk, <<74>>)
     /\ ~Includes(chunk, <<72>>)
  \/ chunk = <<10>> \/ chunk = <<13>> \/ chunk = <<13, 10>>

\* isStdinEcho(chunk)
isStdinEcho(chunk) ==
  \/ Len(chunk) = 1 /\ chunk[1] >= 32 /\ chunk[1] <= 126
  \/ Len(chunk) <= 4 /\ (Includes(chunk, <<8>>) \/ Includes(chunk, <<127>>))
  \/ /\ Len(chunk) <= 6
     /\ StartsWith(chunk, <<27, 91>>)
     /\ ~Includes(chunk, <<74>>)
     /\ ~Includes(chunk, <<72>>)
  \/ chunk = <<10>> \/ chunk = <<13>> \/ chunk = <<13, 10>>

\* chunk.includes(CLEAR_SCREEN) || chunk.includes(HOME_CURSOR)
IsRepaint(chunk) == Includes(chunk, CLEAR_SCREEN) \/ Includes(chunk, HOME_CURSOR)

\* chunk.includes('Conversation cleared') || chunk.includes('Chat cleared')
IsExplicitClear(chunk) ==
  Includes(chunk, MARK_CONVERSATION) \/ Includes(chunk, MARK_CHAT)


----------------------------------------------------------------------------
(* Bounds of the model                                                     *)

\* Date.now() when install() returns; the timestamps initialised to 0 in the
\* source lie further back than every duration of the model.
Epoch == 10
\* number of clock ticks explored after Epoch
MaxTicks == 3
\* cap on the number of registered SIGWINCH handlers
MaxHandlers == 2
\* cap on the number of raw resize notifications
MaxSignals == 3
\* hook calls recorded by the logs of SpecLog
MaxLog == 2
\* forceRecovery() is called while fewer attemptRecovery calls than this are
\* suspended
MaxRecoveries == 1
\* forceRecovery() is called while metrics.recoveriesAttempted is below this
MaxAttempts == 2
\* cap on the pending decay timers when onSigwinch is called directly
MaxResizeSamples == 2
\* cap on the detector wrappers around process.on
MaxWraps == 2

----------------------------------------------------------------------------
(* Durations, in ticks, and thresholds                                     *)

\* config of the supervisor
resizeDebounceMs == 2
periodicClearMs == 3
clearAfterRenders == 2
typingCooldownMs == 1
maxLineCount == 2

\* DEFAULT_CONFIG of the detector
stdinTimeoutMs == 1
sigwinchThresholdMs == 1
sigwinchStormCount == 2
renderRateLimit == 2
checkIntervalMs == 1
recoveryDelayMs == 1

\* literals of the detector
OutputActiveMs == 2
RenderWindowMs == 3
SigwinchDecayMs == 3

\* The monitored program stops writing output chunks once renderCount or the
\* sample window has passed its threshold by one.
MaxRenderCount == clearAfterRenders + 1
MaxSamples == renderRateLimit + 1

DefaultConfig ==
  [ resizeDebounceMs |-> resizeDebounceMs,
    periodicClearMs |-> periodicClearMs,
    clearAfterRenders |-> clearAfterRenders,
    typingCooldownMs |-> typingCooldownMs,
    maxLineCount |-> maxLineCount,
    glitchRecoveryEnabled |-> TRUE,
    debug |-> FALSE,
    disabled |-> FALSE ]

----------------------------------------------------------------------------
(* Chunks written by the monitored program                                 *)

EchoChunks ==
  { <<97>>,                    \* 'a'
    <<27, 91, 72, 127>>,       \* DEL at the end of a short sequence holding ESC[H
    <<27, 91, 65>>,            \* arrow key ESC[A
    <<13, 10>> }               \* CRLF

OutputChunks ==
  { <<120, 10, 121, 10>>,                   \* 'x\ny\n'
    CLEAR_SCREEN \o HOME_CURSOR \o <<102, 10>>,   \* a frame: ESC[2J ESC[H 'f\n'
    MARK_CHAT \o <<10>>,                    \* 'Chat cleared\n'
    CLEAR_SCREEN \o MARK_CONVERSATION,      \* repaint carrying the clear marker
    CLEAR_SCROLLBACK }                      \* a program's own ESC[3J

Chunks == EchoChunks \cup OutputChunks

NoTime == -1

----------------------------------------------------------------------------
VARIABLES
  now,                       \* Date.now()
  config,                    \* supervisor config
  stdoutIsTTY,               \* process.stdout.isTTY
  stdinIsTTY,                \* process.stdin.isTTY
  screenSession,             \* process.env.STY || SPECMEM_SCREEN_SESSION present
  installed,                 \* install() has run: originalWrite is set
  hooked,                    \* process.stdout.write is the hook of install()
  detInstalled,              \* the detector's installed flag
  clearPeriod,               \* period of the periodic cleanup interval, or NoTime
  wrapDepth,                 \* detector wrappers around process.on
  renderCount,
  lineCount,
  lastTypingTime,
  glitchRecoveryInProgress,
  lastStdinTime,             \* detector fields
  lastStdoutTime,
  renderTimes,
  sigwinchCount,
  isGlitched,
  glitchStartTime,
  metrics,
  lastSigwinchTime,
  decayTimers,               \* onSigwinch's decay timeouts: due time, and whether
                             \* the call that created it incremented the counter
  lastResizeTime,            \* resize debouncer
  resizeTimeout,             \* due time of the pending debounce timer, or NoTime
  sigwinchHandlers,          \* number of handlers registered through process.on
  onSigwinchCalls,           \* onSigwinch() calls one run of those handlers makes
  notifyLog,                 \* times of the raw resize notifications
  fireLog,                   \* times at which the registered handlers were run
  pendingClear,
  pendingClearDue,           \* due time of safeClearScrollback's timeout, or NoTime
  clearDue,                  \* next firing of the periodic cleanup interval
  checkDue,                  \* next firing of the detector's checkInterval
  immediates,                \* setImmediate callbacks not yet run
  recoveries,                \* attemptRecovery calls suspended in sleep()
  logCap,                    \* how many hook calls the two logs below record
  hookIn,                    \* chunks passed to the hook, oldest first
  sink,                      \* writes received by originalWrite, oldest first
  obs,                       \* observers of the output stream (see Observe)
  last                       \* the handler that ran last, with what it saw

lifeVars == <<installed, hooked, detInstalled, clearPeriod, wrapDepth>>
envVars == <<config, stdoutIsTTY, stdinIsTTY, screenSession, lifeVars>>
supVars == <<renderCount, lineCount, lastTypingTime, glitchRecoveryInProgress>>
sampleVars == <<lastStdinTime, lastStdoutTime, renderTimes>>
stormVars == <<sigwinchCount, lastSigwinchTime, decayTimers>>
resizeVars == <<lastResizeTime, resizeTimeout, sigwinchHandlers, onSigwinchCalls,
                notifyLog, fireLog>>
clearVars == <<pendingClear, pendingClearDue, clearDue>>
voteVars == <<isGlitched, glitchStartTime, metrics>>
asyncVars == <<checkDue, immediates, recoveries>>
logVars == <<logCap, hookIn, sink>>
vars == <<now, envVars, supVars, sampleVars, stormVars, resizeVars, clearVars,
          voteVars, asyncVars, logVars, obs, last>>

----------------------------------------------------------------------------
(* Typing-activity tracker                                                 *)

isTypingActive == (now - lastTypingTime) < config.typingCooldownMs

----------------------------------------------------------------------------
(* Glitch detector: signals and vote                                       *)

\* checkStdinSilence
StdinBlocked ==
  /\ (now - lastStdinTime) > stdinTimeoutMs
  /\ (now - lastStdoutTime) < OutputActiveMs

\* checkSigwinchStorm
SigwinchStorm == sigwinchCount >= sigwinchStormCount

\* checkRenderSpike
RenderSpike == Len(renderTimes) > renderRateLimit

\* signals.filter(Boolean).length
ActiveSignals(a, b, c) ==
  (IF a THEN 1 ELSE 0) + (IF b THEN 1 ELSE 0) + (IF c THEN 1 ELSE 0)

\* const glitched = activeSignals >= 2 || stdinBlocked
\* a vote that needs two signals whichever they are
Vote_TwoOfThree(stdinBlocked, sigwinchStorm, renderSpike) ==
  ActiveSignals(stdinBlocked, sigwinchStorm, renderSpike) >= 2

Vote(stdinBlocked, sigwinchStorm, renderSpike) ==
  ActiveSignals(stdinBlocked, sigwinchStorm, renderSpike) >= 2 \/ stdinBlocked

\* the value checkGlitchState returns in the current state
CurrentVote == Vote(StdinBlocked, SigwinchStorm, RenderSpike)

Bump(m, field, cond) == IF cond THEN [m EXCEPT ![field] = @ + 1] ELSE m

\* the state changes of checkGlitchState
CheckGlitchState ==
  LET glitched == CurrentVote
      m1 == Bump(metrics, "stdinSilenceEvents", StdinBlocked)
      m2 == Bump(m1, "sigwinchStorms", SigwinchStorm)
      m3 == Bump(m2, "renderSpikes", RenderSpike)
  IN  /\ isGlitched' =
           IF glitched /\ ~isGlitched THEN TRUE
           ELSE IF ~glitched /\ isGlitched THEN FALSE
           ELSE isGlitched
      /\ glitchStartTime' =
           IF glitched /\ ~isGlitched THEN now
           ELSE IF ~glitched /\ isGlitched THEN NoTime
           ELSE glitchStartTime
      /\ metrics' = Bump(m3, "glitchesDetected", glitched /\ ~isGlitched)

CheckRecord ==
  [ signals |-> <<StdinBlocked, SigwinchStorm, RenderSpike>>,
    result |-> CurrentVote,
    was |-> isGlitched ]

----------------------------------------------------------------------------
(* stdout.write hook                                                       *)

\* a line cap that waits while typing is active
LineCapHit_DefersWhileTyping(chunk) ==
  /\ lineCount + NewlineCount(chunk) > config.maxLineCount
  /\ (now - lastTypingTime) >= config.typingCooldownMs

\* lineCount += newlineCount; if (lineCount > config.maxLineCount)
LineCapHit(chunk) == lineCount + NewlineCount(chunk) > config.maxLineCount

\* a render-threshold clear that does not look at typing
RenderClearDue_IgnoresTyping(rc, repaint) ==
  /\ repaint
  /\ config.clearAfterRenders > 0
  /\ rc >= config.clearAfterRenders

\* a render-threshold clear that fires one Repaint chunk late
RenderClearDue_OneLate(rc, repaint) ==
  /\ repaint
  /\ config.clearAfterRenders > 0
  /\ rc > config.clearAfterRenders
  /\ (now - lastTypingTime) >= config.typingCooldownMs

\* the render-threshold clear, given the incremented renderCount and whether
\* the chunk holds a repaint marker
RenderClearDue(rc, repaint) ==
  /\ repaint
  /\ config.clearAfterRenders > 0
  /\ rc >= config.clearAfterRenders
  /\ ~isTypingActive

\* glitchDetector && config.glitchRecoveryEnabled && !glitchRecoveryInProgress
\*   && glitchDetector.isInGlitchState()
GlitchBranch(glitched) ==
  config.glitchRecoveryEnabled /\ ~glitchRecoveryInProgress /\ glitched

\* GlitchDetector.trackStdout: the samples kept after pushing now
TrackedRenderTimes ==
  SelectSeq(Append(renderTimes, now), LAMBDA t : now - t < RenderWindowMs)

\* a directive put behind the chunk
Prepend_Behind(directive, chunk) == chunk \o directive

\* chunk = directive + chunk
Prepend(directive, chunk) == directive \o chunk

\* a repaint branch that resets renderCount outside the typing test
AfterRepaint_ResetsOnSkip(rc, repaint) ==
  IF repaint /\ config.clearAfterRenders > 0 /\ rc >= config.clearAfterRenders
  THEN 0 ELSE rc

\* renderCount after the repaint branch
AfterRepaint(rc, repaint) == IF RenderClearDue(rc, repaint) THEN 0 ELSE rc

\* a /clear branch that waits while typing is active
ExplicitClearDue_DefersWhileTyping(chunk) ==
  IsExplicitClear(chunk) /\ (now - lastTypingTime) >= config.typingCooldownMs

\* the /clear branch is taken for the chunk as it stands at that point
ExplicitClearDue(chunk) == IsExplicitClear(chunk)

\* a branch that leaves lineCount as it is
ResetLineCount_Keeps(lc, taken) == lc

\* lineCount = 0 inside the repaint branch and the /clear branch
ResetLineCount(lc, taken) == IF taken THEN 0 ELSE lc

\* What the hook computes for a chunk that is not a stdin echo; glitched is
\* glitchDetector.isInGlitchState() at the time of the call.
HookOutput(chunk, glitched) ==
  LET cap == LineCapHit(chunk)
      c1 == IF cap THEN Prepend(FORCED_TRIM, chunk) ELSE chunk
      lc1 == IF cap THEN 0 ELSE lineCount + NewlineCount(chunk)
      rc1 == renderCount + 1
      repaint == IsRepaint(c1)
      c2 == IF RenderClearDue(rc1, repaint) THEN Prepend(CLEAR_SCROLLBACK, c1)
            ELSE c1
      rc2 == AfterRepaint(rc1, repaint)
      lc2 == ResetLineCount(lc1, repaint)
      explicit == ExplicitClearDue(c2)
      c3 == IF explicit THEN Prepend(CLEAR_SCROLLBACK, c2) ELSE c2
      lc3 == ResetLineCount(lc2, explicit)
      glitch == GlitchBranch(glitched)
  IN  [ data |-> IF glitch THEN Prepend(FORCED_TRIM, c3) ELSE c3,
        lineCount |-> IF glitch THEN 0 ELSE lc3,
        renderCount |-> IF glitch THEN 0 ELSE rc2,
        recovery |-> glitch ]

----------------------------------------------------------------------------
(* Observers of the output stream.  They record history, not program state: *)
(*   streak   - how many Repaint chunks the program has written in a row,   *)
(*              typing inactive at each, the first one with renderCount = 0 *)
(*              (0: no such run; it saturates one above clearAfterRenders); *)
(*   clean    - during that run the glitch branch has not fired and         *)
(*              attemptRecovery has written nothing;                        *)
(*   deferral - "skipped" once the hook has skipped a render-threshold      *)
(*              clear because typing was active (the else branch of the     *)
(*              typing test), "trimmed" once the glitch branch has fired    *)
(*              after or together with such a skip, "none" once a           *)
(*              render-threshold clear has been injected.                   *)
(***************************************************************************)

NoObs == [streak |-> 0, clean |-> TRUE, deferral |-> "none"]

\* the else branch: 'skipping render-based clear - typing active'
RenderClearSkipped(rc, repaint) ==
  /\ repaint
  /\ config.clearAfterRenders > 0
  /\ rc >= config.clearAfterRenders
  /\ isTypingActive

Observe(chunk, op, recovery) ==
  LET repaint == IsRepaint(chunk)
      rc1 == renderCount + 1
      inRun == op = "write" /\ repaint /\ ~isTypingActive
      k == IF ~inRun THEN 0
           ELSE IF renderCount = 0 THEN 1
           ELSE IF obs.streak = 0 THEN 0
           ELSE IF obs.streak > config.clearAfterRenders THEN obs.streak
           ELSE obs.streak + 1
      streak == IF op = "write" THEN k ELSE obs.streak
      clean == IF streak = 0 THEN TRUE
               ELSE IF op # "write" THEN FALSE
               ELSE IF k = 1 THEN ~recovery
               ELSE obs.clean /\ ~recovery
      deferral ==
        IF RenderClearDue(rc1, repaint) THEN "none"
        ELSE IF RenderClearSkipped(rc1, repaint)
             THEN (IF recovery THEN "trimmed" ELSE "skipped")
        ELSE IF recovery /\ obs.deferral # "none" THEN "trimmed"
        ELSE obs.deferral
  IN  [streak |-> streak, clean |-> clean, deferral |-> deferral]

\* typing activity (a keystroke or an echo) ends a run of Repaint chunks
ObserveTyping == [obs EXCEPT !.streak = 0, !.clean = TRUE]

\* what the hook saw when it was entered
Pre(glitched) ==
  [ renderCount |-> renderCount,
    lineCount |-> lineCount,
    typing |-> isTypingActive,
    glitched |-> glitched,
    inProgress |-> glitchRecoveryInProgress,
    obs |-> obs ]

NoPre == [none |-> TRUE]
NoCheck == [none |-> TRUE]

\* the record of a handler that wrote nothing through the hook
Ran(op, pre, check) ==
  [op |-> op, chunk |-> <<>>, data |-> <<>>, pre |-> pre, check |-> check]

Idle(op) == Ran(op, NoPre, NoCheck)

\* originalWrite(data) called by the hook for chunk, as the logs record it
Logged(chunk, data) ==
  /\ logCap' = logCap
  /\ hookIn' = IF logCap = 0 THEN hookIn ELSE Append(hookIn, chunk)
  /\ sink' = IF logCap = 0 THEN sink
             ELSE Append(sink, [src |-> "hook", data |-> data])

\* process.stdout.write(chunk) with a string chunk, as installed by install().
\* glitched is isInGlitchState() and imm the setImmediate queue at the call;
\* op and check only label the record kept in last.
WriteHook(chunk, glitched, imm, op, check) ==
  IF isStdinEcho(chunk)
  THEN /\ lastTypingTime' = now
       /\ Logged(chunk, chunk)
       /\ immediates' = imm
       /\ obs' = ObserveTyping
       /\ last' = [op |-> op, chunk |-> chunk, data |-> chunk, pre |-> Pre(glitched),
                   check |-> check]
       /\ UNCHANGED <<renderCount, lineCount, glitchRecoveryInProgress,
                      lastStdoutTime, renderTimes>>
  ELSE LET out == HookOutput(chunk, glitched) IN
       /\ renderCount' = out.renderCount
       /\ lineCount' = out.lineCount
       /\ lastStdoutTime' = now
       /\ renderTimes' = TrackedRenderTimes
       /\ glitchRecoveryInProgress' = (glitchRecoveryInProgress \/ out.recovery)
       /\ immediates' = IF out.recovery THEN Append(imm, "recovery") ELSE imm
       /\ Logged(chunk, out.data)
       /\ obs' = Observe(chunk, op, out.recovery)
       /\ last' = [op |-> op, chunk |-> chunk, data |-> out.data, pre |-> Pre(glitched),
                   check |-> check]
       /\ UNCHANGED lastTypingTime

\* a write that reaches the underlying stream without passing the hook:
\* process.stdout.write before install() or after disable(); imm is the
\* setImmediate queue at the call
DirectWrite(data, imm, op, check) ==
  /\ sink' = IF logCap = 0 THEN sink
             ELSE Append(sink, [src |-> "direct", data |-> data])
  /\ immediates' = imm
  /\ last' = [Ran(op, NoPre, check) EXCEPT !.chunk = data, !.data = data]
  /\ UNCHANGED <<renderCount, lineCount, lastTypingTime, glitchRecoveryInProgress,
                 lastStdoutTime, renderTimes, logCap, hookIn, obs>>

\* the variables WriteHook determines
hookVars == <<renderCount, lineCount, lastTypingTime, glitchRecoveryInProgress,
              lastStdoutTime, renderTimes, immediates, logVars, obs, last>>

----------------------------------------------------------------------------
(* Initial state: the module is loaded and install() has returned          *)

\* the module state of both files once they are loaded, whether or not
\* install() has run
ModuleState(cfg, cap) ==
  /\ logCap = cap
  /\ now = Epoch
  /\ config = cfg
  /\ onSigwinchCalls = 0
  /\ renderCount = 0
  /\ lineCount = 0
  /\ lastTypingTime = 0
  /\ glitchRecoveryInProgress = FALSE
  /\ lastStdinTime = Epoch
  /\ lastStdoutTime = 0
  /\ renderTimes = <<>>
  /\ sigwinchCount = 0
  /\ lastSigwinchTime = 0
  /\ decayTimers = <<>>
  /\ lastResizeTime = 0
  /\ resizeTimeout = NoTime
  /\ sigwinchHandlers = 0
  /\ notifyLog = <<>>
  /\ fireLog = <<>>
  /\ pendingClear = FALSE
  /\ pendingClearDue = NoTime
  /\ isGlitched = FALSE
  /\ glitchStartTime = NoTime
  /\ metrics = [ glitchesDetected |-> 0, recoveriesAttempted |-> 0,
                 stdinSilenceEvents |-> 0, sigwinchStorms |-> 0,
                 renderSpikes |-> 0 ]
  /\ immediates = <<>>
  /\ recoveries = <<>>
  /\ hookIn = <<>>
  /\ sink = <<>>
  /\ obs = NoObs

\* install() has just returned
Installed(cfg, cap) ==
  /\ ModuleState(cfg, cap)
  /\ installed = TRUE
  /\ hooked = TRUE
  /\ detInstalled = TRUE
  /\ clearPeriod = (IF cfg.periodicClearMs > 0 THEN cfg.periodicClearMs ELSE NoTime)
  /\ wrapDepth = 1
  /\ clearDue = (IF cfg.periodicClearMs > 0 THEN Epoch + cfg.periodicClearMs
                 ELSE NoTime)
  /\ checkDue = Epoch + checkIntervalMs
  /\ last = Idle("install")

\* the modules are loaded and install() has not been called
Loaded(cfg, cap) ==
  /\ ModuleState(cfg, cap)
  /\ installed = FALSE
  /\ hooked = FALSE
  /\ detInstalled = FALSE
  /\ clearPeriod = NoTime
  /\ wrapDepth = 0
  /\ clearDue = NoTime
  /\ checkDue = NoTime
  /\ last = Idle("load")

Init ==
  /\ stdoutIsTTY \in BOOLEAN
  /\ stdinIsTTY \in BOOLEAN
  /\ screenSession \in BOOLEAN
  /\ Installed(DefaultConfig, 0)

----------------------------------------------------------------------------
(* Timers and the clock                                                    *)

Due(t) == t # NoTime /\ t <= now

\* a timer or a setImmediate callback is ready to run
SomethingDue ==
  \/ immediates # <<>>
  \/ Due(checkDue) \/ Due(clearDue) \/ Due(pendingClearDue) \/ Due(resizeTimeout)
  \/ \E i \in 1..Len(decayTimers) : Due(decayTimers[i].due)
  \/ \E i \in 1..Len(recoveries) : Due(recoveries[i].wake)

Tick ==
  /\ now < Epoch + MaxTicks
  /\ ~SomethingDue
  /\ now' = now + 1
  /\ last' = Idle("tick")
  /\ UNCHANGED <<envVars, supVars, sampleVars, stormVars, resizeVars, clearVars,
                 voteVars, asyncVars, logVars, obs>>

\* process.stdin 'data': the listeners of install() and GlitchDetector.install()
Keystroke ==
  /\ stdinIsTTY
  /\ lastTypingTime' = (IF installed THEN now ELSE lastTypingTime)
  /\ lastStdinTime' = (IF wrapDepth >= 1 THEN now ELSE lastStdinTime)
  /\ obs' = (IF installed THEN ObserveTyping ELSE obs)
  /\ last' = Idle("keystroke")
  /\ UNCHANGED <<now, envVars, renderCount, lineCount, glitchRecoveryInProgress,
                 lastStdoutTime, renderTimes, stormVars, resizeVars, clearVars,
                 voteVars, asyncVars, logVars>>

\* the monitored program writes a string chunk to process.stdout
Write(chunk) ==
  /\ isStdinEcho(chunk) \/ (renderCount < MaxRenderCount /\ Len(renderTimes) < MaxSamples)
  /\ logCap = 0 \/ Len(hookIn) < logCap
  /\ IF hooked
     THEN WriteHook(chunk, isGlitched, immediates, "write", NoCheck)
     ELSE DirectWrite(chunk, immediates, "write-unhooked", NoCheck)
  /\ UNCHANGED <<now, envVars, lastStdinTime, stormVars, resizeVars, clearVars,
                 voteVars, checkDue, recoveries>>

\* the detector's setInterval callback
CheckFire ==
  /\ Due(checkDue)
  /\ CheckGlitchState
  /\ checkDue' = now + checkIntervalMs
  /\ last' = Ran("check", NoPre, CheckRecord)
  /\ UNCHANGED <<now, envVars, supVars, sampleVars, stormVars, resizeVars,
                 clearVars, immediates, recoveries, logVars, obs>>

----------------------------------------------------------------------------
(* GlitchDetector.attemptRecovery, started by the hook through setImmediate *)

\* glitchRecoveryInProgress after attemptRecovery has returned to its caller
\* a setImmediate callback that forgets to clear the mark
AfterRecovery_KeepsMark(owner) == glitchRecoveryInProgress

AfterRecovery(owner) ==
  IF owner = "hook" THEN FALSE ELSE glitchRecoveryInProgress

Sleeping(owner, pc) == [owner |-> owner, pc |-> pc, wake |-> now + recoveryDelayMs]

RemoveAt(q, i) == SubSeq(q, 1, i - 1) \o SubSeq(q, i + 1, Len(q))

\* Method 2: if (process.stdout.isTTY) process.stdout.write('\x1b[3J'), which
\* is the hooked write; glitched is isInGlitchState() at that point
MethodTwo(glitched, imm, op, check) ==
  IF stdoutIsTTY
  THEN IF hooked
       THEN WriteHook(CLEAR_SCROLLBACK, glitched, imm, op, check)
       ELSE DirectWrite(CLEAR_SCROLLBACK, imm, "recovery-direct", check)
  ELSE /\ immediates' = imm
       /\ last' = Ran("recovery-notty", NoPre, check)
       /\ UNCHANGED <<renderCount, lineCount, lastTypingTime,
                      glitchRecoveryInProgress, lastStdoutTime, renderTimes,
                      logVars, obs>>

\* what attemptRecovery emits and returns
Returned(event, value) == [event |-> event, returned |-> value]

\* an attemptRecovery that reports from the state it found before the check
RecoveryResult_Stale(glitched) ==
  IF isGlitched THEN Returned("recovery-failed", FALSE)
  ELSE Returned("recovery-success", TRUE)

\* the end of attemptRecovery after 'if (!this.checkGlitchState())', glitched
\* being the value checkGlitchState returned
RecoveryResult(glitched) ==
  IF glitched THEN Returned("recovery-failed", FALSE)
  ELSE Returned("recovery-success", TRUE)

\* attemptRecovery from its entry to its first await or return
AttemptRecovery(owner, imm) ==
  IF ~isGlitched
  THEN /\ glitchRecoveryInProgress' = AfterRecovery(owner)
       /\ immediates' = imm
       /\ last' = Ran("recovery-skipped",
                       [owner |-> owner, result |-> Returned("none", FALSE)],
                       NoCheck)
       /\ UNCHANGED <<renderCount, lineCount, lastTypingTime, lastStdoutTime,
                      renderTimes, logVars, obs, metrics, recoveries>>
  ELSE /\ metrics' = [metrics EXCEPT !.recoveriesAttempted = @ + 1]
       /\ IF screenSession
          THEN \/ \* execSync returned: await sleep(recoveryDelayMs)
                  /\ recoveries' = Append(recoveries, Sleeping(owner, "screen"))
                  /\ immediates' = imm
                  /\ last' = Idle("recovery-screen")
                  /\ UNCHANGED <<renderCount, lineCount, lastTypingTime,
                                 glitchRecoveryInProgress, lastStdoutTime,
                                 renderTimes, logVars, obs>>
               \/ \* execSync threw: recovery-error, return false
                  /\ glitchRecoveryInProgress' = AfterRecovery(owner)
                  /\ immediates' = imm
                  /\ last' = Ran("recovery-error",
                                  [ owner |-> owner,
                                    result |-> Returned("recovery-error", FALSE) ],
                                  NoCheck)
                  /\ UNCHANGED <<renderCount, lineCount, lastTypingTime,
                                 lastStdoutTime, renderTimes, logVars, obs,
                                 recoveries>>
          ELSE /\ MethodTwo(isGlitched, imm, "recovery-write", NoCheck)
               /\ recoveries' = Append(recoveries, Sleeping(owner, "clear"))

\* the setImmediate callback queued by the hook's glitch branch
RecoveryImmediate ==
  /\ immediates # <<>>
  /\ Head(immediates) = "recovery"
  /\ AttemptRecovery("hook", Tail(immediates))
  /\ UNCHANGED <<now, envVars, lastStdinTime, stormVars, resizeVars, clearVars,
                 isGlitched, glitchStartTime, checkDue>>

\* attemptRecovery resumes after a sleep and re-evaluates the vote
RecoveryWake(i) ==
  LET r == recoveries[i] IN
  /\ Due(r.wake)
  /\ CheckGlitchState
  /\ IF r.pc = "screen" /\ CurrentVote
     THEN \* screen did not help: method 2, then the second sleep
          /\ MethodTwo(isGlitched', immediates, "recovery-write", CheckRecord)
          /\ recoveries' = [recoveries EXCEPT ![i] = Sleeping(r.owner, "clear")]
     ELSE \* recovery-success or recovery-failed: return
          /\ glitchRecoveryInProgress' = AfterRecovery(r.owner)
          /\ recoveries' = RemoveAt(recoveries, i)
          /\ last' = Ran("recovery-check",
                          [owner |-> r.owner, result |-> RecoveryResult(CurrentVote)],
                          CheckRecord)
          /\ UNCHANGED <<renderCount, lineCount, lastTypingTime, lastStdoutTime,
                         renderTimes, immediates, logVars, obs>>
  /\ UNCHANGED <<now, envVars, lastStdinTime, stormVars, resizeVars, clearVars,
                 checkDue>>

\* forceRecovery(): attemptRecovery called from outside the hook
ForceRecovery ==
  /\ Len(recoveries) < MaxRecoveries
  /\ metrics.recoveriesAttempted < MaxAttempts
  /\ AttemptRecovery("api", immediates)
  /\ UNCHANGED <<now, envVars, lastStdinTime, stormVars, resizeVars, clearVars,
                 isGlitched, glitchStartTime, checkDue>>

----------------------------------------------------------------------------
(* Periodic maintenance                                                    *)

\* a safeClearScrollback() without the pendingClear latch: every call made
\* while typing is active sets a timeout
SafeClearScrollback_NoLatch(pending, due, imm) ==
  IF isTypingActive
  THEN [ pendingClear |-> TRUE, due |-> now + config.typingCooldownMs,
         imm |-> imm ]
  ELSE [ pendingClear |-> pending, due |-> due,
         imm |-> IF stdoutIsTTY THEN Append(imm, "clear") ELSE imm ]

\* safeClearScrollback() entered with the given latch, timer and queue
SafeClearScrollback(pending, due, imm) ==
  IF isTypingActive
  THEN IF ~pending
       THEN [ pendingClear |-> TRUE, due |-> now + config.typingCooldownMs,
              imm |-> imm ]
       ELSE [ pendingClear |-> pending, due |-> due, imm |-> imm ]
  ELSE [ pendingClear |-> pending, due |-> due,
         imm |-> IF stdoutIsTTY THEN Append(imm, "clear") ELSE imm ]

\* the setInterval callback of install()
PeriodicFire ==
  /\ Due(clearDue)
  /\ clearDue' = now + clearPeriod
  /\ LET r == SafeClearScrollback(pendingClear, pendingClearDue, immediates) IN
     /\ pendingClear' = r.pendingClear
     /\ pendingClearDue' = r.due
     /\ immediates' = r.imm
  /\ last' = Idle("periodic")
  /\ UNCHANGED <<now, envVars, supVars, sampleVars, stormVars, resizeVars,
                 voteVars, checkDue, recoveries, logVars, obs>>

\* the setTimeout callback of safeClearScrollback
PendingClearFire ==
  /\ Due(pendingClearDue)
  /\ LET r == IF ~isTypingActive
              THEN SafeClearScrollback(FALSE, NoTime, immediates)
              ELSE [pendingClear |-> FALSE, due |-> NoTime, imm |-> immediates] IN
     /\ pendingClear' = r.pendingClear
     /\ pendingClearDue' = r.due
     /\ immediates' = r.imm
  /\ last' = Idle("pending-clear")
  /\ UNCHANGED <<now, envVars, supVars, sampleVars, stormVars, resizeVars,
                 voteVars, clearDue, checkDue, recoveries, logVars, obs>>

\* the setImmediate callback of safeClearScrollback: originalWrite directly
ClearImmediate ==
  /\ immediates # <<>>
  /\ Head(immediates) = "clear"
  /\ immediates' = Tail(immediates)
  /\ sink' = IF logCap = 0 THEN sink
             ELSE Append(sink, [src |-> "direct", data |-> FORCED_TRIM])
  /\ last' = [Idle("clear-write") EXCEPT !.data = FORCED_TRIM]
  /\ UNCHANGED <<now, envVars, supVars, sampleVars, stormVars, resizeVars,
                 clearVars, voteVars, checkDue, recoveries, logCap, hookIn, obs>>

----------------------------------------------------------------------------
(* Resize: the debouncer of installResizeDebounce and the detector's sample *)

\* GlitchDetector.onSigwinch on the detector fields st
OnSigwinch(st) ==
  [ lastSigwinchTime |-> now,
    sigwinchCount |-> IF now - st.lastSigwinchTime < sigwinchThresholdMs
                      THEN st.sigwinchCount + 1 ELSE st.sigwinchCount,
    decayTimers |-> Append(st.decayTimers,
                      [ due |-> now + SigwinchDecayMs,
                        inc |-> now - st.lastSigwinchTime < sigwinchThresholdMs ]) ]

RECURSIVE OnSigwinchTimes(_, _)
OnSigwinchTimes(n, st) ==
  IF n = 0 THEN st ELSE OnSigwinchTimes(n - 1, OnSigwinch(st))

\* sigwinchHandlers.forEach(h => { try { h(); } catch(e) {} }): every handler
\* was registered through the detector's process.on wrapper, so each call
\* runs onSigwinch() and then the program's handler
InvokeHandlers ==
  LET st == OnSigwinchTimes(onSigwinchCalls,
              [ lastSigwinchTime |-> lastSigwinchTime,
                sigwinchCount |-> sigwinchCount,
                decayTimers |-> decayTimers ]) IN
  /\ lastSigwinchTime' = st.lastSigwinchTime
  /\ sigwinchCount' = st.sigwinchCount
  /\ decayTimers' = st.decayTimers
  /\ fireLog' = Append(fireLog, [at |-> now, handlers |-> sigwinchHandlers])

\* process.on('SIGWINCH', handler) called by the monitored program
RegisterHandler ==
  /\ installed
  /\ sigwinchHandlers < MaxHandlers
  /\ sigwinchHandlers' = sigwinchHandlers + 1
  /\ onSigwinchCalls' = onSigwinchCalls + wrapDepth
  /\ last' = Idle("register")
  /\ UNCHANGED <<now, envVars, supVars, sampleVars, stormVars, lastResizeTime,
                 resizeTimeout, notifyLog, fireLog, clearVars, voteVars,
                 asyncVars, logVars, obs>>

\* a debounce test that also batches a signal arriving exactly one debounce
\* period after the previous one
Batched_Inclusive(timeSince) == timeSince <= config.resizeDebounceMs

\* if (timeSince < config.resizeDebounceMs)
Batched(timeSince) == timeSince < config.resizeDebounceMs

\* state of the debouncer when a handler of it is entered
ResizePre ==
  [ elapsed |-> now - lastResizeTime,
    pending |-> resizeTimeout # NoTime,
    fired |-> Len(fireLog) ]

\* a debouncedSigwinch that leaves the pending timer alone
ClearTimeout_Forgets(timer) == timer

\* if (resizeTimeout) clearTimeout(resizeTimeout): the timer, if one was
\* pending, will not fire
ClearTimeout(timer) == NoTime

\* setTimeout(..., config.resizeDebounceMs) with the earlier timer as it is
\* after clearTimeout; the event loop then holds the new timer, and the
\* earlier one as well when it was not cleared, of which the model keeps
\* the one that fires first
SetResizeTimeout(earlier) ==
  IF earlier = NoTime THEN now + config.resizeDebounceMs ELSE earlier

\* debouncedSigwinch: a raw SIGWINCH reaches the process
Sigwinch ==
  /\ sigwinchHandlers >= 1
  /\ Len(notifyLog) < MaxSignals
  /\ notifyLog' = Append(notifyLog, now)
  /\ lastResizeTime' = now
  /\ IF Batched(now - lastResizeTime)
     THEN /\ resizeTimeout' = SetResizeTimeout(ClearTimeout(resizeTimeout))
          /\ UNCHANGED <<stormVars, fireLog>>
     ELSE /\ resizeTimeout' = ClearTimeout(resizeTimeout)
          /\ InvokeHandlers
  /\ last' = Ran("sigwinch", ResizePre, NoCheck)
  /\ UNCHANGED <<now, envVars, supVars, sampleVars, sigwinchHandlers,
                 onSigwinchCalls, clearVars, voteVars, asyncVars, logVars, obs>>

\* the setTimeout callback of debouncedSigwinch
ResizeTimerFire ==
  /\ Due(resizeTimeout)
  /\ resizeTimeout' = NoTime
  /\ InvokeHandlers
  /\ last' = Ran("resize-timer", ResizePre, NoCheck)
  /\ UNCHANGED <<now, envVars, supVars, sampleVars, lastResizeTime,
                 sigwinchHandlers, onSigwinchCalls, notifyLog, clearVars,
                 voteVars, asyncVars, logVars, obs>>

\* the setTimeout callback of onSigwinch
DecayFire ==
  /\ decayTimers # <<>>
  /\ Due(Head(decayTimers).due)
  /\ decayTimers' = Tail(decayTimers)
  /\ sigwinchCount' = IF sigwinchCount > 0 THEN sigwinchCount - 1 ELSE sigwinchCount
  /\ last' = Idle("decay")
  /\ UNCHANGED <<now, envVars, supVars, sampleVars, lastSigwinchTime, resizeVars,
                 clearVars, voteVars, asyncVars, logVars, obs>>

----------------------------------------------------------------------------
(* The detector's reset, disable and install, reached through getDetector() *)

\* a reset that leaves glitchStartTime as it was
Reset_KeepsStartTime ==
  /\ lastStdinTime' = now
  /\ lastStdoutTime' = now
  /\ sigwinchCount' = 0
  /\ renderTimes' = <<>>
  /\ isGlitched' = FALSE
  /\ last' = Ran("reset", [wasGlitched |-> isGlitched], NoCheck)
  /\ UNCHANGED <<now, envVars, supVars, lastSigwinchTime, decayTimers,
                 resizeVars, clearVars, metrics, asyncVars, logVars, obs,
                 glitchStartTime>>

\* GlitchDetector.reset
Reset ==
  /\ lastStdinTime' = now
  /\ lastStdoutTime' = now
  /\ sigwinchCount' = 0
  /\ renderTimes' = <<>>
  /\ isGlitched' = FALSE
  /\ glitchStartTime' = NoTime
  /\ last' = Ran("reset", [wasGlitched |-> isGlitched], NoCheck)
  /\ UNCHANGED <<now, envVars, supVars, lastSigwinchTime, decayTimers,
                 resizeVars, clearVars, metrics, asyncVars, logVars, obs>>

\* getDetector().trackStdout(): one output sample given to the detector
DetectorTrackStdout ==
  /\ Len(renderTimes) < MaxSamples
  /\ lastStdoutTime' = now
  /\ renderTimes' = TrackedRenderTimes
  /\ last' = Idle("track-stdout")
  /\ UNCHANGED <<now, envVars, supVars, lastStdinTime, stormVars, resizeVars,
                 clearVars, voteVars, asyncVars, logVars, obs>>

\* getDetector().onSigwinch(): one resize sample given to the detector
DetectorOnSigwinch ==
  /\ Len(decayTimers) < MaxResizeSamples
  /\ LET st == OnSigwinch([ lastSigwinchTime |-> lastSigwinchTime,
                            sigwinchCount |-> sigwinchCount,
                            decayTimers |-> decayTimers ]) IN
     /\ lastSigwinchTime' = st.lastSigwinchTime
     /\ sigwinchCount' = st.sigwinchCount
     /\ decayTimers' = st.decayTimers
  /\ last' = Idle("on-sigwinch")
  /\ UNCHANGED <<now, envVars, supVars, sampleVars, resizeVars, clearVars,
                 voteVars, asyncVars, logVars, obs>>

\* GlitchDetector.disable
DetectorDisable ==
  /\ checkDue' = NoTime
  /\ detInstalled' = FALSE
  /\ last' = Idle("detector-disable")
  /\ UNCHANGED <<now, config, stdoutIsTTY, stdinIsTTY, screenSession, installed,
                 hooked, clearPeriod, wrapDepth, supVars, sampleVars, stormVars,
                 resizeVars, clearVars, voteVars, immediates, recoveries,
                 logVars, obs>>

\* GlitchDetector.install
DetectorInstall ==
  /\ wrapDepth < MaxWraps
  /\ IF detInstalled
     THEN UNCHANGED <<detInstalled, wrapDepth, checkDue>>
     ELSE /\ detInstalled' = TRUE
          /\ wrapDepth' = wrapDepth + 1
          /\ checkDue' = now + checkIntervalMs
  /\ last' = Ran("detector-install", [wasInstalled |-> detInstalled], NoCheck)
  /\ UNCHANGED <<now, config, stdoutIsTTY, stdinIsTTY, screenSession, installed,
                 hooked, clearPeriod, supVars, sampleVars, stormVars,
                 resizeVars, clearVars, voteVars, immediates, recoveries,
                 logVars, obs>>

----------------------------------------------------------------------------
(* install() and disable() of the supervisor                               *)

\* an install() without the test of the installed flag: every call hooks
\* process.stdout.write and creates the interval again
Install_Again ==
  /\ IF config.disabled
     THEN UNCHANGED <<installed, hooked, detInstalled, clearPeriod, wrapDepth,
                      clearDue, checkDue>>
     ELSE /\ installed' = TRUE
          /\ hooked' = TRUE
          /\ clearPeriod' = (IF config.periodicClearMs > 0
                             THEN config.periodicClearMs ELSE NoTime)
          /\ clearDue' = (IF config.periodicClearMs > 0
                          THEN now + config.periodicClearMs ELSE NoTime)
          /\ IF detInstalled
             THEN UNCHANGED <<detInstalled, wrapDepth, checkDue>>
             ELSE /\ detInstalled' = TRUE
                  /\ wrapDepth' = wrapDepth + 1
                  /\ checkDue' = now + checkIntervalMs
  /\ last' = Ran("install", [wasInstalled |-> installed], NoCheck)
  /\ UNCHANGED <<now, config, stdoutIsTTY, stdinIsTTY, screenSession, supVars,
                 sampleVars, stormVars, resizeVars, pendingClear,
                 pendingClearDue, voteVars, immediates, recoveries, logVars,
                 obs>>

\* install()
Install ==
  /\ IF installed \/ config.disabled
     THEN UNCHANGED <<installed, hooked, detInstalled, clearPeriod, wrapDepth,
                      clearDue, checkDue>>
     ELSE /\ installed' = TRUE
          /\ hooked' = TRUE
          /\ clearPeriod' = (IF config.periodicClearMs > 0
                             THEN config.periodicClearMs ELSE NoTime)
          /\ clearDue' = (IF config.periodicClearMs > 0
                          THEN now + config.periodicClearMs ELSE NoTime)
          /\ IF detInstalled
             THEN UNCHANGED <<detInstalled, wrapDepth, checkDue>>
             ELSE /\ detInstalled' = TRUE
                  /\ wrapDepth' = wrapDepth + 1
                  /\ checkDue' = now + checkIntervalMs
  /\ last' = Ran("install", [wasInstalled |-> installed], NoCheck)
  /\ UNCHANGED <<now, config, stdoutIsTTY, stdinIsTTY, screenSession, supVars,
                 sampleVars, stormVars, resizeVars, pendingClear,
                 pendingClearDue, voteVars, immediates, recoveries, logVars,
                 obs>>

\* a disable() that swaps the write entry point back and forth instead of
\* restoring it
Disable_Toggles ==
  /\ hooked' = (IF installed THEN ~hooked ELSE hooked)
  /\ last' = Ran("disable", [wasInstalled |-> installed, wasHooked |-> hooked],
                 NoCheck)
  /\ UNCHANGED <<now, config, stdoutIsTTY, stdinIsTTY, screenSession, installed,
                 detInstalled, clearPeriod, wrapDepth, supVars, sampleVars,
                 stormVars, resizeVars, clearVars, voteVars, asyncVars,
                 logVars, obs>>

\* disable()
Disable ==
  /\ hooked' = (IF installed THEN FALSE ELSE hooked)
  /\ last' = Ran("disable", [wasInstalled |-> installed, wasHooked |-> hooked],
                 NoCheck)
  /\ UNCHANGED <<now, config, stdoutIsTTY, stdinIsTTY, screenSession, installed,
                 detInstalled, clearPeriod, wrapDepth, supVars, sampleVars,
                 stormVars, resizeVars, clearVars, voteVars, asyncVars,
                 logVars, obs>>

----------------------------------------------------------------------------
(* setConfig() and getStats()                                              *)

\* properties every object literal inherits from Object.prototype, which the
\* in operator finds as well as the object's own keys
PrototypeKeys == {"toString"}

\* key in config
InConfig(key) == key \in DOMAIN config \cup PrototypeKeys

\* the configuration after config[key] = value
Assigned(key, value) ==
  [x \in DOMAIN config \cup {key} |-> IF x = key THEN value ELSE config[x]]

\* setConfig(key, value)
SetConfig(key, value) ==
  /\ config' = (IF InConfig(key) THEN Assigned(key, value) ELSE config)
  /\ last' = Ran("setConfig", [key |-> key, value |-> value], NoCheck)
  /\ UNCHANGED <<now, stdoutIsTTY, stdinIsTTY, screenSession, lifeVars, supVars,
                 sampleVars, stormVars, resizeVars, clearVars, voteVars,
                 asyncVars, logVars, obs>>

\* GlitchDetector.getMetrics()
GetMetrics ==
  [ metrics |-> metrics,
    isGlitched |-> isGlitched,
    glitchDuration |-> (IF ~isGlitched \/ glitchStartTime = NoTime THEN 0
                        ELSE now - glitchStartTime),
    renderRate |-> Len(renderTimes),
    sigwinchRate |-> sigwinchCount,
    lastStdinAgo |-> now - lastStdinTime,
    lastStdoutAgo |-> now - lastStdoutTime ]

\* getStats()
GetStats ==
  [ renderCount |-> renderCount,
    lineCount |-> lineCount,
    lastResizeTime |-> lastResizeTime,
    installed |-> installed,
    config |-> config,
    glitch |-> GetMetrics ]

----------------------------------------------------------------------------
Next ==
  \/ Tick
  \/ Keystroke
  \/ \E chunk \in Chunks : Write(chunk)
  \/ CheckFire
  \/ RecoveryImmediate
  \/ \E i \in 1..Len(recoveries) : RecoveryWake(i)
  \/ PeriodicFire
  \/ PendingClearFire
  \/ ClearImmediate
  \/ RegisterHandler
  \/ Sigwinch
  \/ ResizeTimerFire
  \/ DecayFire

Spec == Init /\ [][Next]_vars

----------------------------------------------------------------------------
(* The output path alone: no SIGWINCH handler is ever registered and the    *)
(* periodic cleanup is configured off (periodicClearMs = 0)                 *)

InitHook ==
  /\ stdoutIsTTY \in BOOLEAN
  /\ stdinIsTTY = TRUE
  /\ screenSession = FALSE
  /\ Installed([DefaultConfig EXCEPT !.periodicClearMs = 0], 0)

NextHook ==
  \/ Tick
  \/ Keystroke
  \/ \E chunk \in Chunks : Write(chunk)
  \/ CheckFire
  \/ RecoveryImmediate
  \/ \E i \in 1..Len(recoveries) : RecoveryWake(i)

SpecHook == InitHook /\ [][NextHook]_vars

----------------------------------------------------------------------------
(* The output path with the logs on: hookIn records the chunks passed to    *)
(* the hook and sink the writes that reach the underlying stream, those of  *)
(* the periodic cleanup included.  setConfig('periodicClearMs', ...) was    *)
(* called before install() with a period one tick below the default.        *)

LogChunks ==
  { <<97>>, <<120, 10, 121, 10>>, CLEAR_SCREEN \o HOME_CURSOR \o <<102, 10>>,
    MARK_CHAT \o <<10>> }

InitLog ==
  /\ stdoutIsTTY \in BOOLEAN
  /\ stdinIsTTY = TRUE
  /\ screenSession = FALSE
  /\ Installed([DefaultConfig EXCEPT !.periodicClearMs = periodicClearMs - 1],
               MaxLog)

NextLog ==
  \/ Tick
  \/ Keystroke
  \/ \E chunk \in LogChunks : Write(chunk)
  \/ CheckFire
  \/ RecoveryImmediate
  \/ \E i \in 1..Len(recoveries) : RecoveryWake(i)
  \/ PeriodicFire
  \/ PendingClearFire
  \/ ClearImmediate

SpecLog == InitLog /\ [][NextLog]_vars

----------------------------------------------------------------------------
(* The resize path alone: nothing is typed or written and the periodic      *)
(* cleanup is configured off                                                *)

InitResize ==
  /\ stdoutIsTTY = TRUE
  /\ stdinIsTTY = TRUE
  /\ screenSession = FALSE
  /\ Installed([DefaultConfig EXCEPT !.periodicClearMs = 0], 0)

NextResize ==
  \/ Tick
  \/ CheckFire
  \/ RegisterHandler
  \/ Sigwinch
  \/ ResizeTimerFire
  \/ DecayFire

SpecResize == InitResize /\ [][NextResize]_vars

----------------------------------------------------------------------------
(* The same with the event loop's fairness.  Resize notifications arrive   *)
(* until their cap is reached; the clock advances past its bound for as    *)
(* long as the debounce timer is pending, so that a timer armed at the end *)
(* of the explored time still fires.                                       *)

\* the clock past its bound, while the debounce timer is pending
TickPending ==
  /\ now >= Epoch + MaxTicks
  /\ resizeTimeout # NoTime
  /\ ~SomethingDue
  /\ now' = now + 1
  /\ last' = Idle("tick")
  /\ UNCHANGED <<envVars, supVars, sampleVars, stormVars, resizeVars, clearVars,
                 voteVars, asyncVars, logVars, obs>>

NextResizeLive ==
  \/ Tick
  \/ TickPending
  \/ CheckFire
  \/ RegisterHandler
  \/ Sigwinch
  \/ ResizeTimerFire
  \/ DecayFire

\* timers that are due run, and time passes
SpecResizeLive ==
  /\ InitResize
  /\ [][NextResizeLive]_vars
  /\ WF_vars(Tick)
  /\ WF_vars(TickPending)
  /\ WF_vars(CheckFire)
  /\ WF_vars(DecayFire)
  /\ WF_vars(ResizeTimerFire)

----------------------------------------------------------------------------
(* The detector with all three of its signals: a program that writes        *)
(* repaints and registers resize handlers, resizes, and a user who types    *)
(* nothing.  The hook's glitch branch is configured off                     *)
(* (glitchRecoveryEnabled false), and so is the periodic cleanup; the       *)
(* detector is installed all the same.                                      *)

VoteChunks == {CLEAR_SCREEN \o HOME_CURSOR \o <<102, 10>>}

InitVote ==
  /\ stdoutIsTTY = TRUE
  /\ stdinIsTTY = TRUE
  /\ screenSession = FALSE
  /\ Installed([DefaultConfig EXCEPT !.periodicClearMs = 0,
                                     !.glitchRecoveryEnabled = FALSE], 0)

NextVote ==
  \/ Tick
  \/ \E chunk \in VoteChunks : Write(chunk)
  \/ CheckFire
  \/ RegisterHandler
  \/ Sigwinch
  \/ ResizeTimerFire
  \/ DecayFire

SpecVote == InitVote /\ [][NextVote]_vars

----------------------------------------------------------------------------
(* The detector object driven through its methods, as getDetector() hands   *)
(* it out: trackStdout, onSigwinch, the periodic checkGlitchState,          *)
(* attemptRecovery (through forceRecovery()), reset, disable and install.   *)
(* The only writes are those of attemptRecovery; the hook's own glitch      *)
(* branch and the periodic cleanup are configured off.                      *)

InitDetector ==
  /\ stdoutIsTTY = TRUE
  /\ stdinIsTTY = TRUE
  /\ screenSession = FALSE
  /\ Installed([DefaultConfig EXCEPT !.periodicClearMs = 0,
                                     !.glitchRecoveryEnabled = FALSE], 0)

NextDetector ==
  \/ Tick
  \/ DetectorTrackStdout
  \/ CheckFire
  \/ DetectorOnSigwinch
  \/ DecayFire
  \/ ForceRecovery
  \/ \E i \in 1..Len(recoveries) : RecoveryWake(i)
  \/ Reset
  \/ DetectorDisable
  \/ DetectorInstall

SpecDetector == InitDetector /\ [][NextDetector]_vars

----------------------------------------------------------------------------
(* Recovery: the hook's glitch branch and forceRecovery(), with and without *)
(* a screen session, the periodic cleanup configured off                    *)

RecoveryChunks == {<<120, 10, 121, 10>>}

InitRecovery ==
  /\ stdoutIsTTY \in BOOLEAN
  /\ stdinIsTTY = TRUE
  /\ screenSession \in BOOLEAN
  /\ Installed([DefaultConfig EXCEPT !.periodicClearMs = 0], 0)

NextRecovery ==
  \/ Tick
  \/ Keystroke
  \/ \E chunk \in RecoveryChunks : Write(chunk)
  \/ CheckFire
  \/ RecoveryImmediate
  \/ \E i \in 1..Len(recoveries) : RecoveryWake(i)
  \/ ForceRecovery

SpecRecovery == InitRecovery /\ [][NextRecovery]_vars

----------------------------------------------------------------------------
(* The same with the event loop's fairness.  The program and the user act  *)
(* until the clock reaches its bound; after that the clock still advances  *)
(* for as long as an attemptRecovery is asleep, so that every sleep started *)
(* within the bound ends.                                                  *)

InHorizon == now <= Epoch + MaxTicks

\* the clock past its bound, while some attemptRecovery sleeps
TickLate ==
  /\ now >= Epoch + MaxTicks
  /\ recoveries # <<>>
  /\ ~SomethingDue
  /\ now' = now + 1
  /\ last' = Idle("tick")
  /\ UNCHANGED <<envVars, supVars, sampleVars, stormVars, resizeVars, clearVars,
                 voteVars, asyncVars, logVars, obs>>

KeystrokeInHorizon == InHorizon /\ Keystroke

WriteInHorizon(chunk) == InHorizon /\ Write(chunk)

ForceRecoveryInHorizon == InHorizon /\ ForceRecovery

NextRecoveryLive ==
  \/ Tick
  \/ TickLate
  \/ KeystrokeInHorizon
  \/ \E chunk \in RecoveryChunks : WriteInHorizon(chunk)
  \/ CheckFire
  \/ RecoveryImmediate
  \/ \E i \in 1..Len(recoveries) : RecoveryWake(i)
  \/ ForceRecoveryInHorizon

\* timers and setImmediate callbacks that are due run, and time passes
SpecRecoveryLive ==
  /\ InitRecovery
  /\ [][NextRecoveryLive]_vars
  /\ WF_vars(Tick)
  /\ WF_vars(TickLate)
  /\ WF_vars(CheckFire)
  /\ WF_vars(RecoveryImmediate)
  /\ WF_vars(\E i \in 1..Len(recoveries) : RecoveryWake(i))

----------------------------------------------------------------------------
(* Lifecycle: the program loads the module, installs, writes, resizes and  *)
(* disables                                                                *)

LifecycleChunks == {<<120, 10>>}

InitLifecycle ==
  /\ Loaded([DefaultConfig EXCEPT !.glitchRecoveryEnabled = FALSE,
                                 !.periodicClearMs = periodicClearMs - 1], 0)
  /\ stdoutIsTTY = TRUE
  /\ stdinIsTTY = TRUE
  /\ screenSession = FALSE

NextLifecycle ==
  \/ Tick
  \/ Keystroke
  \/ \E chunk \in LifecycleChunks : Write(chunk)
  \/ Install
  \/ Disable
  \/ CheckFire
  \/ PeriodicFire
  \/ PendingClearFire
  \/ ClearImmediate

SpecLifecycle == InitLifecycle /\ [][NextLifecycle]_vars

----------------------------------------------------------------------------
(* Runtime configuration: the program changes tunables while it writes and *)
(* the periodic cleanup runs; nothing is typed                             *)

ConfigChunks == {<<120, 10>>}

ConfigKeys ==
  {"periodicClearMs", "maxLineCount", "toString", "verbose"}

ConfigValues == {0, 1}

InitConfig ==
  /\ Installed([DefaultConfig EXCEPT !.glitchRecoveryEnabled = FALSE], 0)
  /\ stdoutIsTTY = TRUE
  /\ stdinIsTTY = TRUE
  /\ screenSession = FALSE

NextConfig ==
  \/ Tick
  \/ \E chunk \in ConfigChunks : Write(chunk)
  \/ \E key \in ConfigKeys, value \in ConfigValues : SetConfig(key, value)
  \/ CheckFire
  \/ PeriodicFire
  \/ ClearImmediate

SpecConfig == InitConfig /\ [][NextConfig]_vars

----------------------------------------------------------------------------
(* Periodic maintenance against typing: the interval runs more often than  *)
(* the typing cooldown lasts, and the program writes nothing               *)

InitDefer ==
  /\ stdoutIsTTY \in BOOLEAN
  /\ stdinIsTTY = TRUE
  /\ screenSession = FALSE
  /\ Installed([DefaultConfig EXCEPT !.periodicClearMs = periodicClearMs - 2,
                                    !.typingCooldownMs = typingCooldownMs + 1,
                                    !.glitchRecoveryEnabled = FALSE], 0)

NextDefer ==
  \/ Tick
  \/ Keystroke
  \/ CheckFire
  \/ PeriodicFire
  \/ PendingClearFire
  \/ ClearImmediate

SpecDefer == InitDefer /\ [][NextDefer]_vars

----------------------------------------------------------------------------
(* The PTY wrapper, bin/claude-fixed.js.  It is a program of its own that  *)
(* runs claude as a child and filters the child's output; it does not load *)
(* the supervisor.  In SpecPty the variables config, renderCount, lineCount *)
(* and lastTypingTime hold the wrapper's variables of these names, clearDue *)
(* the next firing of its setInterval, and the supervisor's and the         *)
(* detector's variables keep the values they have before install().         *)

\* config of the wrapper, disabled being CLAUDE_TERMINAL_FIX_DISABLED === '1'
PtyConfig(disabled) ==
  [ resizeDebounceMs |-> resizeDebounceMs,
    periodicClearMs |-> periodicClearMs,
    clearAfterRenders |-> clearAfterRenders,
    typingCooldownMs |-> typingCooldownMs,
    maxLineCount |-> maxLineCount,
    debug |-> FALSE,
    disabled |-> disabled ]

\* processOutput(chunk): the chunk to write and the two counters afterwards
processOutput(chunk) ==
  IF config.disabled
  THEN [output |-> chunk, renderCount |-> renderCount, lineCount |-> lineCount]
  ELSE LET rc1 == renderCount + 1
           lc1 == lineCount + NewlineCount(chunk)
           capped == lc1 > config.maxLineCount
           out1 == IF capped THEN FORCED_TRIM \o chunk ELSE chunk
           repaint == IsRepaint(chunk)
           due == /\ repaint
                  /\ config.clearAfterRenders > 0
                  /\ rc1 >= config.clearAfterRenders
                  /\ ~isTypingActive
           out2 == IF due THEN CLEAR_SCROLLBACK \o out1 ELSE out1
           marked == IsExplicitClear(chunk)
       IN  [ output |-> IF marked THEN CLEAR_SCROLLBACK \o out2 ELSE out2,
             renderCount |-> IF due THEN 0 ELSE rc1,
             lineCount |-> IF capped \/ repaint \/ marked THEN 0 ELSE lc1 ]

\* term.onData / child.stdout.on('data'): process.stdout.write(processOutput(data))
PtyData(chunk) ==
  LET out == processOutput(chunk) IN
  /\ config.disabled \/ renderCount < MaxRenderCount
  /\ renderCount' = out.renderCount
  /\ lineCount' = out.lineCount
  /\ last' = [ op |-> "pty-data", chunk |-> chunk, data |-> out.output,
               pre |-> Pre(FALSE), check |-> NoCheck ]
  /\ UNCHANGED <<now, envVars, lastTypingTime, glitchRecoveryInProgress,
                 sampleVars, stormVars, resizeVars, clearVars, voteVars,
                 asyncVars, logVars, obs>>

\* process.stdin.on('data') of the wrapper
PtyKeystroke ==
  /\ lastTypingTime' = now
  /\ last' = Idle("pty-keystroke")
  /\ UNCHANGED <<now, envVars, renderCount, lineCount, glitchRecoveryInProgress,
                 sampleVars, stormVars, resizeVars, clearVars, voteVars,
                 asyncVars, logVars, obs>>

\* the setInterval callback of the wrapper's PTY mode
PtyPeriodicFire ==
  /\ Due(clearDue)
  /\ clearDue' = now + config.periodicClearMs
  /\ last' = IF isTypingActive THEN Idle("pty-periodic")
             ELSE [Idle("pty-periodic") EXCEPT !.data = FORCED_TRIM]
  /\ UNCHANGED <<now, envVars, supVars, sampleVars, stormVars, resizeVars,
                 pendingClear, pendingClearDue, voteVars, asyncVars, logVars, obs>>

\* chunks the child writes: the keystroke echoes, a bare line feed, and output
PtyChunks ==
  EchoChunks \cup
  { <<10>>,                                       \* '\n'
    <<120, 10, 121, 10>>,                         \* 'x\ny\n'
    CLEAR_SCREEN \o HOME_CURSOR \o <<102, 10>>,   \* a frame
    MARK_CHAT \o <<10>> }                         \* 'Chat cleared\n'

\* main() has set the wrapper up; stdinIsTTY tells PTY mode, which has the
\* periodic clear, from basic mode, which has not
InitPty ==
  /\ stdoutIsTTY = TRUE
  /\ stdinIsTTY \in BOOLEAN
  /\ screenSession = FALSE
  /\ \E disabled \in BOOLEAN : ModuleState(PtyConfig(disabled), 0)
  /\ installed = FALSE
  /\ hooked = FALSE
  /\ detInstalled = FALSE
  /\ clearPeriod = NoTime
  /\ wrapDepth = 0
  /\ clearDue = (IF stdinIsTTY THEN Epoch + periodicClearMs ELSE NoTime)
  /\ checkDue = NoTime
  /\ last = Idle("load")

NextPty ==
  \/ Tick
  \/ PtyKeystroke
  \/ \E chunk \in PtyChunks : PtyData(chunk)
  \/ PtyPeriodicFire

SpecPty == InitPty /\ [][NextPty]_vars

----------------------------------------------------------------------------
(* Vocabulary of the properties                                            *)

\* the last handler passed a chunk through the write hook
HookCall == last.op \in {"write", "recovery-write"}

\* what the hook put in front of the chunk (the chunk must end the data)
Injected == SubSeq(last.data, 1, Len(last.data) - Len(last.chunk))

\* d as a sequence of directives, "clear" for ESC[3J and "trim" for
\* ESC[s ESC[3J ESC[u; anything else parses to "other"
RECURSIVE Directives(_)
Directives(d) ==
  IF d = <<>> THEN <<>>
  ELSE IF StartsWith(d, CLEAR_SCROLLBACK)
       THEN <<"clear">> \o Directives(SubSeq(d, Len(CLEAR_SCROLLBACK) + 1, Len(d)))
  ELSE IF StartsWith(d, FORCED_TRIM)
       THEN <<"trim">> \o Directives(SubSeq(d, Len(FORCED_TRIM) + 1, Len(d)))
  ELSE <<"other">>

Has(q, x) == \E i \in 1..Len(q) : q[i] = x

\* the keystroke echoes as the specification lists them
EchoShape(chunk) ==
  \/ Len(chunk) = 1 /\ chunk[1] \in 32..126
  \/ Len(chunk) <= 4 /\ \E i \in 1..Len(chunk) : chunk[i] \in {8, 127}
  \/ /\ Len(chunk) <= 6
     /\ Len(chunk) >= 2 /\ chunk[1] = 27 /\ chunk[2] = 91
     /\ \A i \in 1..Len(chunk) : chunk[i] \notin {74, 72}
  \/ chunk \in {<<10>>, <<13>>, <<13, 10>>}

----------------------------------------------------------------------------
(* C1: a keystroke echo is written to the sink exactly as it came, and the  *)
(* hook call changes nothing but lastTypingTime, which becomes now: not     *)
(* renderCount, lineCount, glitchRecoveryInProgress, lastStdoutTime or      *)
(* renderTimes, in any state.                                               *)
C1_EchoPassesThrough ==
  [][ (last'.op = "write" /\ EchoShape(last'.chunk)) =>
        /\ last'.data = last'.chunk
        /\ lastTypingTime' = now
        /\ UNCHANGED <<renderCount, lineCount, glitchRecoveryInProgress,
                       lastStdoutTime, renderTimes>>
        /\ UNCHANGED <<now, envVars, lastStdinTime, stormVars, resizeVars,
                       clearVars, voteVars, asyncVars>> ]_vars

\* an echo written while the detector is Glitched with no recovery in flight,
\* renderCount at the threshold and lineCount at the cap
C1_Witness ==
  /\ last.op = "write"
  /\ EchoShape(last.chunk)
  /\ last.chunk = <<27, 91, 72, 127>>
  /\ last.pre.glitched /\ ~last.pre.inProgress
  /\ renderCount >= config.clearAfterRenders
  /\ lineCount = config.maxLineCount

----------------------------------------------------------------------------
\* the writes the hook passed to the underlying stream, in order
HookSink == SelectSeq(sink, LAMBDA e : e.src = "hook")

(* C2: the underlying stream receives one write per chunk passed to the     *)
(* hook, in the order of the calls, and each write is D + chunk: the chunk  *)
(* is an unmodified suffix and D is a concatenation, possibly empty, of     *)
(* the directives ESC[3J and ESC[s ESC[3J ESC[u.                            *)
C2_OneWritePerChunkInOrder ==
  /\ Len(HookSink) = Len(hookIn)
  /\ \A i \in 1..Len(hookIn) :
       LET d == HookSink[i].data
           c == hookIn[i]
       IN  /\ EndsWith(d, c)
           /\ ~Has(Directives(SubSeq(d, 1, Len(d) - Len(c))), "other")

\* two different chunks written through the hook, the first with directives
\* in front of it and the second as it came, a write of the periodic cleanup
\* in between
C2_Witness ==
  /\ Len(hookIn) = 2
  /\ Len(sink) = 3
  /\ sink[2].src = "direct"
  /\ hookIn[1] # hookIn[2]
  /\ sink[1].data # hookIn[1]
  /\ sink[3].data = hookIn[2]
  /\ ~EchoShape(hookIn[2])

----------------------------------------------------------------------------
(* C3: with maxLineCount positive, a chunk whose line feeds take lineCount  *)
(* above maxLineCount is written with the forced trim directly in front of  *)
(* it and lineCount is 0 afterwards, typing active or not; lineCount never  *)
(* exceeds maxLineCount when the hook has returned.                         *)
C3_HardCap ==
  config.maxLineCount > 0 =>
    /\ lineCount <= config.maxLineCount
    /\ ( /\ HookCall
         /\ ~EchoShape(last.chunk)
         /\ last.pre.lineCount + NewlineCount(last.chunk) > config.maxLineCount )
       => /\ EndsWith(last.data, FORCED_TRIM \o last.chunk)
          /\ lineCount = 0

\* the cap is hit while typing is active and the glitch branch stays out
C3_Witness ==
  /\ last.op = "write"
  /\ ~EchoShape(last.chunk)
  /\ last.pre.lineCount + NewlineCount(last.chunk) > config.maxLineCount
  /\ last.pre.typing
  /\ ~last.pre.glitched
  /\ last.data = FORCED_TRIM \o last.chunk
  /\ lineCount = 0

----------------------------------------------------------------------------
(* C7: a chunk holding 'Conversation cleared' or 'Chat cleared' is written  *)
(* with the injected directive ESC[3J in front of it and lineCount is 0     *)
(* afterwards, in every state, typing active included.                      *)
C7_ExplicitClearNeverDeferred ==
  ( /\ HookCall
    /\ ~EchoShape(last.chunk)
    /\ \/ Includes(last.chunk, MARK_CONVERSATION)
       \/ Includes(last.chunk, MARK_CHAT) )
  => /\ EndsWith(last.data, last.chunk)
     /\ Has(Directives(Injected), "clear")
     /\ ~Has(Directives(Injected), "other")
     /\ lineCount = 0

\* 'Chat cleared' written while typing is active
C7_Witness ==
  /\ last.op = "write"
  /\ last.chunk = MARK_CHAT \o <<10>>
  /\ last.pre.typing
  /\ last.data = CLEAR_SCROLLBACK \o last.chunk
  /\ lineCount = 0

----------------------------------------------------------------------------
(* Claim-side shapes                                                       *)

\* a Repaint chunk as the specification defines it
RepaintShape(chunk) == Includes(chunk, CLEAR_SCREEN) \/ Includes(chunk, HOME_CURSOR)

\* the chunk holds one of the two clear markers
MarkerShape(chunk) == Includes(chunk, MARK_CONVERSATION) \/ Includes(chunk, MARK_CHAT)

\* the last handler was a hook call with a Repaint chunk
RepaintCall == HookCall /\ ~EchoShape(last.chunk) /\ RepaintShape(last.chunk)

\* the glitch branch was open when the last hook call was entered
GlitchOpen ==
  config.glitchRecoveryEnabled /\ last.pre.glitched /\ ~last.pre.inProgress

\* the directives the branches other than the render threshold put in front
\* of the last chunk, outermost first
OtherDirectives ==
  (IF GlitchOpen THEN <<"trim">> ELSE <<>>)
  \o (IF MarkerShape(last.chunk) THEN <<"clear">> ELSE <<>>)
  \o (IF last.pre.lineCount + NewlineCount(last.chunk) > config.maxLineCount
      THEN <<"trim">> ELSE <<>>)

----------------------------------------------------------------------------
(* C4 as stated: while typing is active, a Repaint chunk processed with     *)
(* renderCount at or above clearAfterRenders is written with no ESC[3J      *)
(* injected in front of it and renderCount is not reset.                    *)
C4_NoClearWhileTyping ==
  ( /\ RepaintCall
    /\ last.pre.typing
    /\ last.pre.renderCount + 1 >= config.clearAfterRenders )
  => /\ EndsWith(last.data, last.chunk)
     /\ ~Includes(Injected, CLEAR_SCROLLBACK)
     /\ renderCount = last.pre.renderCount + 1

(* C4 amended: while typing is active, a Repaint chunk processed with       *)
(* renderCount at or above clearAfterRenders does not get the               *)
(* render-threshold clear.  What is written in front of the chunk is only   *)
(* what the other branches inject: the forced trim of the line cap, ESC[3J  *)
(* of an explicit clear and the forced trim of the glitch branch, each      *)
(* exactly when its own condition holds; renderCount keeps its incremented  *)
(* value unless the glitch branch resets it to 0.                           *)
C4_NoRenderClearWhileTyping ==
  ( /\ RepaintCall
    /\ last.pre.typing
    /\ last.pre.renderCount + 1 >= config.clearAfterRenders )
  => /\ EndsWith(last.data, last.chunk)
     /\ Directives(Injected) = OtherDirectives
     /\ renderCount = IF GlitchOpen THEN 0 ELSE last.pre.renderCount + 1

\* a plain Repaint chunk at the threshold while typing is active: written as
\* it came, renderCount kept
C4_Witness ==
  /\ last.op = "write"
  /\ RepaintShape(last.chunk)
  /\ ~MarkerShape(last.chunk)
  /\ last.pre.typing
  /\ last.pre.renderCount + 1 >= config.clearAfterRenders
  /\ ~GlitchOpen
  /\ last.data = last.chunk
  /\ renderCount = last.pre.renderCount + 1

----------------------------------------------------------------------------
(* C5 as stated: once a render-threshold clear has been skipped because     *)
(* typing was active, renderCount stays at or above clearAfterRenders, and  *)
(* the first Repaint chunk processed with typing inactive has ESC[3J        *)
(* injected and resets renderCount to 0.                                    *)
C5_SkippedClearNotLost ==
  /\ obs.deferral # "none" => renderCount >= config.clearAfterRenders
  /\ ( /\ RepaintCall
       /\ ~last.pre.typing
       /\ last.pre.obs.deferral # "none" )
     => /\ Has(Directives(Injected), "clear")
        /\ renderCount = 0

(* C5 amended: once a render-threshold clear has been skipped because       *)
(* typing was active, and as long as the glitch branch has not fired since  *)
(* (it resets renderCount to 0 and writes the forced trim instead),         *)
(* renderCount stays at or above clearAfterRenders, and the first Repaint   *)
(* chunk processed with typing inactive has ESC[3J injected and leaves      *)
(* renderCount at 0.                                                        *)
C5_SkippedClearKeptUntilTrim ==
  /\ obs.deferral = "skipped" => renderCount >= config.clearAfterRenders
  /\ ( /\ RepaintCall
       /\ ~last.pre.typing
       /\ last.pre.obs.deferral = "skipped" )
     => /\ EndsWith(last.data, last.chunk)
        /\ Has(Directives(Injected), "clear")
        /\ renderCount = 0

\* a skipped clear made up for by the next Repaint chunk once typing has
\* stopped, the glitch branch staying out
C5_Witness ==
  /\ last.op = "write"
  /\ RepaintShape(last.chunk)
  /\ ~MarkerShape(last.chunk)
  /\ ~last.pre.typing
  /\ last.pre.obs.deferral = "skipped"
  /\ ~GlitchOpen
  /\ last.data = CLEAR_SCROLLBACK \o last.chunk
  /\ renderCount = 0

----------------------------------------------------------------------------
(* C6 as stated: in a run of Repaint chunks written by the program with     *)
(* typing inactive, counted from renderCount = 0, the chunk number          *)
(* clearAfterRenders has ESC[3J injected and resets renderCount to 0, and   *)
(* no earlier chunk of the run has ESC[3J injected.                         *)
C6_NthRepaintCleared ==
  ( /\ last.op = "write"
    /\ config.clearAfterRenders > 0
    /\ obs.streak >= 1
    /\ obs.streak <= config.clearAfterRenders )
  => /\ EndsWith(last.data, last.chunk)
     /\ IF obs.streak = config.clearAfterRenders
        THEN Has(Directives(Injected), "clear") /\ renderCount = 0
        ELSE ~Includes(Injected, CLEAR_SCROLLBACK)

(* C6 amended: in such a run during which the glitch branch does not fire   *)
(* and attemptRecovery writes nothing, the chunk number clearAfterRenders   *)
(* has ESC[3J injected and resets renderCount to 0; an earlier chunk, the   *)
(* k-th, leaves renderCount at k and has something injected only by the     *)
(* line cap or, when it holds a clear marker, by the explicit clear.        *)
C6_NthRepaintClearedInCleanRun ==
  ( /\ last.op = "write"
    /\ config.clearAfterRenders > 0
    /\ obs.streak >= 1
    /\ obs.streak <= config.clearAfterRenders
    /\ obs.clean )
  => /\ EndsWith(last.data, last.chunk)
     /\ IF obs.streak = config.clearAfterRenders
        THEN Has(Directives(Injected), "clear") /\ renderCount = 0
        ELSE /\ renderCount = obs.streak
             /\ Directives(Injected) = OtherDirectives

\* the chunk number clearAfterRenders of a clean run, time having passed
\* since the chunk before it
C6_Witness ==
  /\ last.op = "write"
  /\ obs.streak = config.clearAfterRenders
  /\ obs.clean
  /\ last.pre.obs.streak = config.clearAfterRenders - 1
  /\ ~MarkerShape(last.chunk)
  /\ lastStdoutTime > Epoch
  /\ last.data = CLEAR_SCROLLBACK \o last.chunk
  /\ renderCount = 0

----------------------------------------------------------------------------
\* the notifications so far form one burst: each arrived less than
\* resizeDebounceMs after the one before it
OneBurst ==
  \A i \in 2..Len(notifyLog) :
    notifyLog[i] - notifyLog[i - 1] < config.resizeDebounceMs

\* the burst is over: the debounce period has passed since its last
\* notification and no timer of the debouncer is left
Settled ==
  /\ notifyLog # <<>>
  /\ now >= notifyLog[Len(notifyLog)] + config.resizeDebounceMs
  /\ resizeTimeout = NoTime

(* C8 as stated: when a burst of resize notifications, each less than       *)
(* resizeDebounceMs after the one before, is over, the registered callbacks *)
(* have been invoked exactly once, resizeDebounceMs after the last          *)
(* notification of the burst.                                               *)
C8_BurstFiresOnceAfterLast ==
  (OneBurst /\ Settled) =>
    /\ Len(fireLog) = 1
    /\ fireLog[1].at = notifyLog[Len(notifyLog)] + config.resizeDebounceMs

----------------------------------------------------------------------------
----------------------------------------------------------------------------
\* the vote as the specification states it, on a triple of signals
VoteRule(signals) ==
  \/ Cardinality({i \in 1..3 : signals[i]}) >= 2
  \/ signals[1]

(* C10: whatever the three signals are when checkGlitchState runs, it       *)
(* returns true exactly when at least two of them are true or stdin         *)
(* silence is true, and when it has returned isGlitched equals that vote:   *)
(* Normal has become Glitched on a true vote, Glitched has become Normal    *)
(* on a false one, and the state is unchanged otherwise.                    *)
C10_VoteDecidesState ==
  (last.op \in {"check", "recovery-check"}) =>
    /\ last.check.result = VoteRule(last.check.signals)
    /\ isGlitched = last.check.result
    /\ (isGlitched # last.check.was) = (last.check.result # last.check.was)
    /\ (glitchStartTime # NoTime) = isGlitched

\* two signals without stdin silence turn Normal into Glitched
C10_Witness ==
  /\ last.op = "check"
  /\ last.check.signals = <<FALSE, TRUE, TRUE>>
  /\ ~last.check.was
  /\ isGlitched

----------------------------------------------------------------------------
(* C11: in every state of the detector, whatever the interleaving of        *)
(* checkGlitchState, attemptRecovery, reset, trackStdout, onSigwinch,       *)
(* install and disable, isGlitched is true exactly when glitchStartTime is  *)
(* not null.                                                                *)
C11_GlitchedIffStartTime == isGlitched <=> (glitchStartTime # NoTime)

\* a reset that ends a Glitched state while an attemptRecovery is asleep
C11_Witness ==
  /\ last.op = "reset"
  /\ last.pre.wasGlitched
  /\ recoveries # <<>>
  /\ ~isGlitched
  /\ glitchStartTime = NoTime

----------------------------------------------------------------------------
(* C12 as stated: at most one execution of attemptRecovery is between its   *)
(* start and its return at any time.                                        *)
C12_OneRecoveryInFlight == Len(recoveries) <= 1

----------------------------------------------------------------------------
(* C13 as stated: when a screen session is present and the screen command   *)
(* throws, attemptRecovery does not return before it has written the        *)
(* scrollback clear (on a TTY) and re-evaluated the vote.                   *)
C13_CommandFailureProceeds ==
  (last.op = "recovery-error") =>
    /\ stdoutIsTTY => Includes(last.data, CLEAR_SCROLLBACK)
    /\ "signals" \in DOMAIN last.check

----------------------------------------------------------------------------
\* C14: once disable() has returned after an install(), none of the timers
\* the system created is armed (here the periodic interval, the deferred
\* typing-aware clear and the detector's check interval) and no corrective
\* directive is written to the sink
C14_DisableStopsEverything ==
  (installed /\ ~hooked) =>
    /\ clearDue = NoTime
    /\ pendingClearDue = NoTime
    /\ checkDue = NoTime
    /\ last.op # "clear-write"

\* auxiliary: a clear written by periodic maintenance after disable()
C14_ClearAfterDisable == installed /\ ~hooked /\ last.op = "clear-write"

----------------------------------------------------------------------------
\* everything the program holds, without the record of the last step
programVars == <<now, envVars, supVars, sampleVars, stormVars, resizeVars,
                 clearVars, voteVars, asyncVars, logVars, obs>>

\* C15: a disable() that directly follows a disable() changes nothing
\* (entry points, counters, flags, armed timers), and a disable() before
\* any install() changes nothing
C15_DisableIdempotent ==
  [][ (last'.op = "disable" /\ (last.op = "disable" \/ ~installed))
        => UNCHANGED programVars ]_vars

\* disable() has run on a system that was installed and already disabled,
\* with the periodic interval still armed
C15_Witness ==
  /\ last.op = "disable"
  /\ last.pre.wasInstalled
  /\ ~last.pre.wasHooked
  /\ clearDue # NoTime

----------------------------------------------------------------------------
\* C16: when process.stdout is not a TTY, whatever a step writes to the sink
\* is exactly the chunk it was given: nothing is injected by the write hook,
\* the glitch branch, periodic maintenance or the recovery procedure
C16_NoDirectiveOffTTY ==
  ~stdoutIsTTY => last.data = last.chunk

----------------------------------------------------------------------------
\* the snapshot with entry key of its config replaced by value
SnapshotWith(key, value) ==
  [GetStats EXCEPT !.config = [@ EXCEPT ![key] = value]]

\* C17: setConfig(k, v) with k a key of the configuration makes getStats()
\* return the previous snapshot with config[k] = v and nothing else changed;
\* with any other key the snapshot (configuration and counters) is unchanged
C17_SetConfigRoundTrip ==
  [][ last'.op = "setConfig" =>
        IF last'.pre.key \in DOMAIN config
        THEN GetStats' = SnapshotWith(last'.pre.key, last'.pre.value)
        ELSE GetStats' = GetStats ]_vars

\* auxiliary: the round trip for the keys the configuration holds
C17_KnownKeyRoundTrip ==
  [][ (last'.op = "setConfig" /\ last'.pre.key \in DOMAIN config) =>
        GetStats' = SnapshotWith(last'.pre.key, last'.pre.value) ]_vars

\* auxiliary: a key that neither the configuration nor Object.prototype holds
C17_UnknownKeyIgnored ==
  [][ (last'.op = "setConfig" /\ ~InConfig(last'.pre.key)) =>
        GetStats' = GetStats ]_vars

----------------------------------------------------------------------------
\* C18: once setConfig('periodicClearMs', v) with v > 0 has run after
\* install(), periodic maintenance runs every v: when its callback has run,
\* the next run is v later
C18_NewCadenceTakesEffect ==
  (last.op = "periodic" /\ config.periodicClearMs > 0) =>
    clearDue = now + config.periodicClearMs

----------------------------------------------------------------------------
\* C19: a zero or negative threshold disables its feature: with
\* maxLineCount <= 0 the hook injects no forced trim for the line cap, with
\* clearAfterRenders <= 0 it injects no render-threshold clear, and with
\* periodicClearMs <= 0 periodic maintenance does not run
C19_NonPositiveDisables ==
  /\ (HookCall /\ ~isStdinEcho(last.chunk) /\ config.maxLineCount <= 0
        /\ ~GlitchOpen)
       => ~Has(Directives(Injected), "trim")
  /\ (HookCall /\ ~isStdinEcho(last.chunk) /\ config.clearAfterRenders <= 0)
       => Directives(Injected) = OtherDirectives
  /\ config.periodicClearMs <= 0 => last.op # "periodic"

\* auxiliary: the line cap with maxLineCount <= 0
C19_LineCapOff ==
  (HookCall /\ ~isStdinEcho(last.chunk) /\ config.maxLineCount <= 0
     /\ ~GlitchOpen)
    => ~Has(Directives(Injected), "trim")

\* auxiliary: the render threshold with clearAfterRenders <= 0
C19_RenderClearOff ==
  (HookCall /\ ~isStdinEcho(last.chunk) /\ config.clearAfterRenders <= 0)
    => Directives(Injected) = OtherDirectives

\* auxiliary: periodic maintenance with periodicClearMs <= 0
C19_PeriodicOff == config.periodicClearMs <= 0 => last.op # "periodic"

----------------------------------------------------------------------------
\* C20: lineCount is never negative, and it is 0 when the hook has processed
\* a chunk (not a keystroke echo) in front of which it put a forced trim, or
\* that is a Repaint chunk, or that is an ExplicitClear chunk
C20_LineCountResets ==
  /\ lineCount >= 0
  /\ ( /\ HookCall
       /\ ~EchoShape(last.chunk)
       /\ \/ Has(Directives(Injected), "trim")
          \/ RepaintShape(last.chunk)
          \/ MarkerShape(last.chunk) )
     => lineCount = 0

\* a Repaint chunk that took no forced trim arrives with lines counted
C20_Witness ==
  /\ last.op = "write"
  /\ ~EchoShape(last.chunk)
  /\ RepaintShape(last.chunk)
  /\ ~Has(Directives(Injected), "trim")
  /\ last.pre.lineCount > 0
  /\ lineCount = 0

----------------------------------------------------------------------------
\* C21: an install() called when install() has already run changes no state
\* (the hook, the counters, the periodic interval and the process.on
\* wrappers stay as the first call left them), and the detector's wrapper
\* is around process.on at most once
C21_InstallIdempotent ==
  /\ [][ (last'.op = "install" /\ installed) => UNCHANGED programVars ]_vars
  /\ [](wrapDepth <= 1)

\* install() has been called again after time has passed since the first
\* call, the interval of the first call still armed
C21_Witness ==
  /\ last.op = "install"
  /\ last.pre.wasInstalled
  /\ hooked
  /\ wrapDepth = 1
  /\ clearDue # NoTime
  /\ clearDue < now + clearPeriod

----------------------------------------------------------------------------
\* the event checkGlitchState emitted in the last step, "none" when the step
\* did not run it or it emitted nothing
Emitted ==
  IF "was" \notin DOMAIN last.check THEN "none"
  ELSE IF last.check.result /\ ~last.check.was THEN "glitch-detected"
  ELSE IF ~last.check.result /\ last.check.was THEN "glitch-resolved"
  ELSE "none"

\* C22: every step that takes the detector from Normal to Glitched emits
\* glitch-detected and every step that takes it from Glitched to Normal
\* emits glitch-resolved, so the two events alternate
C22_EveryTransitionEmits ==
  [][ /\ (~isGlitched /\ isGlitched') => Emitted' = "glitch-detected"
      /\ (isGlitched /\ ~isGlitched') => Emitted' = "glitch-resolved" ]_vars

\* auxiliary: the same for the steps other than reset()
C22_ChecksEmit ==
  [][ last'.op # "reset" =>
        /\ (~isGlitched /\ isGlitched') <=> Emitted' = "glitch-detected"
        /\ (isGlitched /\ ~isGlitched') <=> Emitted' = "glitch-resolved" ]_vars

----------------------------------------------------------------------------
\* the output-activity samples taken within the window that ends now
SamplesInWindow == SelectSeq(renderTimes, LAMBDA t : now - t < RenderWindowMs)

\* C23: at every periodic check the render-spike signal is true exactly when
\* more than renderRateLimit output-activity samples lie within the window
\* before the check; older samples are not counted
C23_RenderSpikeCountsWindow ==
  last.op = "check" =>
    (last.check.signals[3] <=> Len(SamplesInWindow) > renderRateLimit)

\* auxiliary: the signal is the length of the list trackStdout last pruned
C23_RenderSpikeCountsList ==
  last.op = "check" =>
    (last.check.signals[3] <=> Len(renderTimes) > renderRateLimit)

----------------------------------------------------------------------------
\* the increments of the burst counter that are not yet one decay period old
YoungIncrements ==
  Cardinality({i \in 1..Len(decayTimers) :
                 decayTimers[i].inc /\ decayTimers[i].due > now})

\* C24: the burst counter is decremented one decay period after each
\* increment and at no other time: it is never negative, and an increment
\* that is not yet one decay period old is still counted
C24_DecayFollowsIncrement ==
  /\ sigwinchCount >= 0
  /\ sigwinchCount >= YoungIncrements

\* auxiliary: the counter is never negative
C24_NeverNegative == sigwinchCount >= 0

----------------------------------------------------------------------------
\* C25: every raw SIGWINCH gives the detector exactly one resize sample, taken
\* when the signal arrives: one more decay timeout is pending and
\* lastSigwinchTime is the time of the signal, whatever the debouncer does
\* with it and however many handlers are registered
C25_OneSamplePerSignal ==
  [][ last'.op = "sigwinch" =>
        /\ Len(decayTimers') = Len(decayTimers) + 1
        /\ lastSigwinchTime' = now' ]_vars

\* auxiliary: a signal that the debouncer passes on at once, with exactly one
\* handler registered, gives exactly one sample
C25_OneHandlerIsolated ==
  [][ (last'.op = "sigwinch" /\ sigwinchHandlers = 1
         /\ ~Batched(now - lastResizeTime)) =>
        /\ Len(decayTimers') = Len(decayTimers) + 1
        /\ lastSigwinchTime' = now' ]_vars

----------------------------------------------------------------------------
\* the attemptRecovery calls waiting in the setImmediate queue q
QueuedRecoveries(q) == Len(SelectSeq(q, LAMBDA e : e = "recovery"))

\* C26: the scrollback clear written by the second recovery method is not
\* handled as output of the monitored program: the step that writes it
\* changes neither renderCount nor lineCount, adds no output-activity sample
\* (lastStdoutTime and renderTimes unchanged) and queues no further recovery
C26_RecoveryWriteIsDirect ==
  [][ last'.op = "recovery-write" =>
        /\ UNCHANGED <<renderCount, lineCount, lastStdoutTime, renderTimes>>
        /\ QueuedRecoveries(immediates') <= QueuedRecoveries(immediates) ]_vars

\* auxiliary: the write queues no further recovery when the hook started
\* the recovery itself
C26_HookRecoveryDoesNotRestart ==
  [][ (last'.op = "recovery-write" /\ glitchRecoveryInProgress) =>
        QueuedRecoveries(immediates') <= QueuedRecoveries(immediates) ]_vars

----------------------------------------------------------------------------
\* the forced trims among the directives in front of the last chunk
TrimCount == Len(SelectSeq(Directives(Injected), LAMBDA d : d = "trim"))

\* the forced trim the line cap puts in front of the last chunk
CapTrims ==
  IF last.pre.lineCount + NewlineCount(last.chunk) > config.maxLineCount
  THEN 1 ELSE 0

\* an attemptRecovery is queued, or asleep between its steps, or the hook's
\* mark says so
RecoveryInFlight ==
  \/ glitchRecoveryInProgress
  \/ recoveries # <<>>
  \/ QueuedRecoveries(immediates) > 0

\* what the glitch branch does in a step in which the monitored program
\* writes a chunk that is not a keystroke echo, inFlight telling whether a
\* recovery is in flight when the hook is entered
GlitchBranchContract(inFlight) ==
  (last'.op = "write" /\ ~EchoShape(last'.chunk)) =>
    IF isGlitched /\ config.glitchRecoveryEnabled /\ ~inFlight
    THEN /\ StartsWith(last'.data, FORCED_TRIM)
         /\ TrimCount' = 1 + CapTrims'
         /\ renderCount' = 0
         /\ lineCount' = 0
         /\ glitchRecoveryInProgress'
         /\ QueuedRecoveries(immediates') = QueuedRecoveries(immediates) + 1
         /\ UNCHANGED <<recoveries, metrics>>
    ELSE /\ TrimCount' = CapTrims'
         /\ glitchRecoveryInProgress' = glitchRecoveryInProgress
         /\ immediates' = immediates
         /\ UNCHANGED <<recoveries, metrics>>

\* C27: a chunk that is not a keystroke echo, written while the detector is
\* Glitched, recovery is enabled and no recovery is in flight, is written
\* with the forced trim in front, renderCount and lineCount are 0 afterwards,
\* the in-flight mark is set and one attemptRecovery is queued, not run;
\* in every other case the glitch branch adds no forced trim and queues
\* nothing
C27_GlitchBranchGuarded == [][ GlitchBranchContract(RecoveryInFlight) ]_vars

\* auxiliary: the same with 'in flight' read as the hook's own mark
C27_GlitchBranchByMark ==
  [][ GlitchBranchContract(glitchRecoveryInProgress) ]_vars

----------------------------------------------------------------------------
\* C28: whenever the hook's in-flight mark is set it is cleared later, and
\* every attemptRecovery that has started returns: the recovery succeeds,
\* fails or ends in recovery-error, and none stays suspended
C28_MarkEventuallyCleared ==
  /\ glitchRecoveryInProgress ~> ~glitchRecoveryInProgress
  /\ (recoveries # <<>>) ~> (recoveries = <<>>)

\* a recovery the hook started has ended in recovery-error, or has ended
\* after its last sleep ran past the clock's bound, and the mark is clear
C28_Witness ==
  /\ last.op \in {"recovery-error", "recovery-check"}
  /\ last.pre.owner = "hook"
  /\ last.op = "recovery-check" => now > Epoch + MaxTicks
  /\ ~glitchRecoveryInProgress
  /\ recoveries = <<>>

----------------------------------------------------------------------------
\* C29: pendingClear is true exactly while the typing-aware timeout of
\* safeClearScrollback is armed, and a periodic call made while typing is
\* active and pendingClear is true leaves that timeout as it is and arms no
\* other
C29_SingleDeferredTimer ==
  /\ [](pendingClear <=> (pendingClearDue # NoTime))
  /\ [][ (last'.op = "periodic" /\ isTypingActive /\ pendingClear) =>
           /\ pendingClear'
           /\ pendingClearDue' = pendingClearDue ]_vars

\* the periodic callback has run while typing was active and the timeout of
\* an earlier call was still pending
C29_Witness ==
  /\ last.op = "periodic"
  /\ isTypingActive
  /\ pendingClear
  /\ pendingClearDue # NoTime
  /\ pendingClearDue < now + config.typingCooldownMs

----------------------------------------------------------------------------
\* C30: a clear deferred because of typing is not dropped: when the deferred
\* re-check runs while typing is still active, the deferral is armed again
C30_DeferralRearmed ==
  [][ (last'.op = "pending-clear" /\ isTypingActive) =>
        /\ pendingClear'
        /\ pendingClearDue' # NoTime ]_vars

\* auxiliary: a re-check that runs when typing has stopped queues the clear
\* on a TTY
C30_RecheckClearsWhenIdle ==
  [][ (last'.op = "pending-clear" /\ ~isTypingActive /\ stdoutIsTTY) =>
        immediates' = Append(immediates, "clear") ]_vars

----------------------------------------------------------------------------
\* the last step entered attemptRecovery, from the setImmediate callback or
\* from forceRecovery()
RecoveryEntered ==
  /\ last.op \in { "recovery-skipped", "recovery-screen", "recovery-error",
                  "recovery-write", "recovery-direct", "recovery-notty" }
  /\ last.check = NoCheck

\* the last step returned from attemptRecovery
RecoveryReturned ==
  last.op \in {"recovery-skipped", "recovery-error", "recovery-check"}

\* C31: attemptRecovery emits recovery-success and returns true only in a
\* step that leaves the detector Normal, and emits recovery-failed and
\* returns false only in a step that leaves it Glitched; entered while the
\* detector is Normal it returns false, emits nothing, writes nothing and
\* changes no metric
C31_ResultAgreesWithState ==
  [][ /\ RecoveryReturned' =>
           LET res == last'.pre.result IN
           /\ (res.returned \/ res.event = "recovery-success") =>
                (res.returned /\ res.event = "recovery-success" /\ ~isGlitched')
           /\ res.event = "recovery-failed" => (~res.returned /\ isGlitched')
      /\ (RecoveryEntered' /\ ~isGlitched) =>
           /\ last'.pre.result = Returned("none", FALSE)
           /\ last'.data = <<>>
           /\ UNCHANGED <<metrics, isGlitched, glitchStartTime, renderCount,
                          lineCount, lastStdoutTime, renderTimes, recoveries,
                          logVars>> ]_vars

\* an attemptRecovery whose last check took the detector from Glitched to
\* Normal has returned true with recovery-success
C31_Witness ==
  /\ last.op = "recovery-check"
  /\ last.check.was
  /\ last.pre.result = Returned("recovery-success", TRUE)
  /\ ~isGlitched

\* auxiliary: states in which the two other ends have just been taken
C31_FailedReached ==
  /\ last.op = "recovery-check"
  /\ last.pre.result = Returned("recovery-failed", FALSE)
  /\ isGlitched

C31_SkippedReached ==
  /\ last.op = "recovery-skipped"
  /\ last.pre.owner = "hook"
  /\ ~isGlitched

----------------------------------------------------------------------------
\* C32: in the PTY wrapper a chunk that is a keystroke echo (a single
\* printable character, a short backspace/delete sequence, a short CSI
\* sequence without 'J' or 'H', or a bare line ending) is written as it
\* came, and renderCount and lineCount are unchanged, in every state
C32_PtyEchoUntouched ==
  [][ (last'.op = "pty-data" /\ EchoShape(last'.chunk)) =>
        /\ last'.data = last'.chunk
        /\ UNCHANGED <<renderCount, lineCount>> ]_vars

\* auxiliary: the chunk itself always ends what the wrapper writes, and a
\* disabled wrapper changes nothing
C32_PtyKeepsChunk ==
  [][ last'.op = "pty-data" =>
        /\ EndsWith(last'.data, last'.chunk)
        /\ config.disabled =>
             (last'.data = last'.chunk /\ UNCHANGED <<renderCount, lineCount>>) ]_vars

\* auxiliary: a line feed typed at the line cap is written behind a forced
\* trim
C32_EchoTrimmed ==
  /\ last.op = "pty-data"
  /\ last.chunk = <<10>>
  /\ last.data = FORCED_TRIM \o <<10>>
  /\ lineCount = 0

----------------------------------------------------------------------------
\* the ESC[3J directives in front of the last chunk
ClearCount == Len(SelectSeq(Directives(Injected), LAMBDA d : d = "clear"))

\* the last chunk received a scrollback clear from the repaint branch: one
\* more ESC[3J than its clear marker accounts for
RepaintCleared ==
  /\ RepaintCall
  /\ ClearCount > (IF MarkerShape(last.chunk) THEN 1 ELSE 0)

\* C33: renderCount is 0 right after the hook has processed a chunk holding
\* a clear marker, and right after a chunk that received a scrollback clear
\* from the repaint branch
C33_RenderCountReset ==
  (HookCall /\ ~EchoShape(last.chunk)) =>
    /\ MarkerShape(last.chunk) => renderCount = 0
    /\ RepaintCleared => renderCount = 0

\* auxiliary: the repaint half alone
C33_RepaintClearResets == RepaintCleared => renderCount = 0

\* auxiliary: a chunk with a clear marker resets renderCount only through
\* the repaint branch or the glitch branch, and counts as a render otherwise
C33_MarkerCountsAsRender ==
  (HookCall /\ MarkerShape(last.chunk)) =>
    renderCount = (IF RepaintCleared \/ GlitchOpen THEN 0
                   ELSE last.pre.renderCount + 1)

\* auxiliary: a repaint chunk has just received the repaint branch's clear
C33_RepaintClearReached ==
  /\ RepaintCleared
  /\ ~GlitchOpen
  /\ last.pre.renderCount > 0
  /\ renderCount = 0

----------------------------------------------------------------------------
\* the registered callbacks have been invoked at or after the i-th resize
\* notification
InvokedSince(i) ==
  /\ i <= Len(notifyLog)
  /\ \E j \in 1..Len(fireLog) :
       /\ fireLog[j].at >= notifyLog[i]
       /\ fireLog[j].handlers >= 1

\* the pending debounce timer is the one the latest notification armed
OnlyLatestTimer ==
  resizeTimeout # NoTime =>
    /\ notifyLog # <<>>
    /\ resizeTimeout = notifyLog[Len(notifyLog)] + config.resizeDebounceMs

\* a pending timer goes away only by firing, or in a notification that
\* invokes the callbacks itself or arms its own timer
CancelledOnlyByNotification ==
  (resizeTimeout # NoTime /\ resizeTimeout' # resizeTimeout) =>
    \/ /\ last'.op = "resize-timer"
       /\ Len(fireLog') = Len(fireLog) + 1
    \/ /\ last'.op = "sigwinch"
       /\ \/ Len(fireLog') = Len(fireLog) + 1
          \/ resizeTimeout' = now + config.resizeDebounceMs

\* C34: no resize is lost by the debouncer.  After every resize
\* notification the registered callbacks are eventually invoked, at or
\* after the time of the notification; at most one debounce timer is
\* pending, the one armed by the latest notification; and a pending timer
\* is cancelled only by a later notification that invokes the callbacks or
\* arms a timer itself.  Notifications are finitely many.
C34_NoResizeLost ==
  /\ \A i \in 1..MaxSignals : (Len(notifyLog) >= i) ~> InvokedSince(i)
  /\ []OnlyLatestTimer
  /\ [][CancelledOnlyByNotification]_vars

\* a notification has replaced the pending timer of an earlier one with its
\* own, and that timer has fired past the clock's bound
C34_Witness ==
  /\ last.op = "resize-timer"
  /\ Len(notifyLog) >= 3
  /\ notifyLog[Len(notifyLog)] > notifyLog[Len(notifyLog) - 1]
  /\ notifyLog[Len(notifyLog)] - notifyLog[Len(notifyLog) - 1] < config.resizeDebounceMs
  /\ now > Epoch + MaxTicks
  /\ fireLog[Len(fireLog)].at = notifyLog[Len(notifyLog)] + config.resizeDebounceMs
  /\ Len(fireLog) < Len(notifyLog)

=============================================================================
